---- MODULE Spec2Model ----
(***************************************************************************)
(* Warranty dashboard (src/app.py and its earlier revision src/main.py):   *)
(* the startup aggregation of four spreadsheets into the WARRANTY_DATA     *)
(* cache, and the request handlers that read the cache.                    *)
(*                                                                         *)
(* Representation.  A spreadsheet cell is a tagged record: Num(n) for a    *)
(* number, Str(s) for a text, NaN for a missing cell.  A text is a tuple   *)
(* of one-character strings, so that strip(), upper(), [:3], startswith()  *)
(* and sorted() are computed character by character.  Amounts are          *)
(* integers.  A DataFrame is a record [cols, rows]: the ordered column     *)
(* labels and the sequence of rows, each row a function from column label  *)
(* to cell.  None is the Python None.                                      *)
(***************************************************************************)
EXTENDS Integers, Sequences, FiniteSets, TLC

VARIABLES
    program,        \* which revision runs: "app" (src/app.py) or "main" (src/main.py)
    ledgerFile,     \* 'Warranty Debit.xlsx'
    pendingFile,    \* 'Pending Warranty Claim Details.xlsx'
    compFile,       \* 'Transit_Claims_Merged.xlsx'
    prFile,         \* 'Pr_Approval_Claims_Merged.xlsx'
    WARRANTY_DATA,  \* the module-level cache
    pc,             \* number of startup statements executed (0..4); 4 = serving
    response,       \* the reply to the last request, None before the first
    USER_CREDENTIALS, \* user id -> password, loaded from 'UserID.xlsx'
    SESSIONS,       \* session id -> [user_id, created_at, last_activity]
    now,            \* datetime.now(), in hours
    captcha_issued, \* the CAPTCHA texts handed out so far; the server keeps none
    tokens          \* the values secrets.token_hex(16) has returned so far

\* the state of the login and session routines
authVars == <<USER_CREDENTIALS, SESSIONS, now, captcha_issued, tokens>>

\* the files, the cache and the startup position
dataVars == <<program, ledgerFile, pendingFile, compFile, prFile, WARRANTY_DATA, pc>>

vars == <<program, ledgerFile, pendingFile, compFile, prFile, WARRANTY_DATA, pc, response,
          USER_CREDENTIALS, SESSIONS, now, captcha_issued, tokens>>

(***************************************************************************)
(* Bounds                                                                  *)
(***************************************************************************)
\* largest number of data rows in a source sheet
MaxRows == 2

(***************************************************************************)
(* Cells and texts                                                         *)
(***************************************************************************)
None == [t |-> "None"]
NaN == [t |-> "nan"]
Num(n) == [t |-> "num", n |-> n]
Str(s) == [t |-> "str", s |-> s]

IsNum(c) == c.t = "num"
IsStr(c) == c.t = "str"
isna(c) == c.t = "nan"

Min(a, b) == IF a < b THEN a ELSE b
Max(a, b) == IF a > b THEN a ELSE b

\* the characters of the model's texts in code-point order
CodePoints ==
    <<" ", "-", ".", "0", "1", "2", "3", "4", "5", "6", "7", "8", "9",
      "A", "B", "C", "D", "E", "F", "G", "H", "I", "J", "K", "L", "M",
      "N", "O", "P", "Q", "R", "S", "T", "U", "V", "W", "X", "Y", "Z", "_",
      "a", "b", "c", "d", "e", "f", "g", "h", "i", "j", "k", "l", "m",
      "n", "o", "p", "q", "r", "s", "t", "u", "v", "w", "x", "y", "z">>

ord(c) == CHOOSE i \in 1..Len(CodePoints) : CodePoints[i] = c

\* str.upper() on one character
UpperChar(c) == IF ord(c) >= ord("a") /\ ord(c) <= ord("z")
                THEN CodePoints[ord(c) - ord("a") + ord("A")]
                ELSE c

upper(s) == [i \in 1..Len(s) |-> UpperChar(s[i])]

RECURSIVE lstrip(_)
lstrip(s) == IF s # <<>> /\ Head(s) = " " THEN lstrip(Tail(s)) ELSE s

RECURSIVE rstrip(_)
rstrip(s) == IF s # <<>> /\ s[Len(s)] = " " THEN rstrip(SubSeq(s, 1, Len(s) - 1)) ELSE s

\* str.strip()
strip(s) == rstrip(lstrip(s))

\* s[:n]
Prefix(s, n) == SubSeq(s, 1, Min(n, Len(s)))

startswith(s, p) == Len(s) >= Len(p) /\ SubSeq(s, 1, Len(p)) = p

\* Python's < on str: lexicographic by code point
RECURSIVE StrLess(_, _)
StrLess(a, b) ==
    IF b = <<>> THEN FALSE
    ELSE IF a = <<>> THEN TRUE
    ELSE IF Head(a) = Head(b) THEN StrLess(Tail(a), Tail(b))
    ELSE ord(Head(a)) < ord(Head(b))

RECURSIVE SortedStrsDescending(_)
\* the texts of a set from the last to the first
SortedStrsDescending(S) ==
    IF S = {} THEN <<>>
    ELSE LET m == CHOOSE x \in S : \A y \in S \ {x} : StrLess(y, x)
         IN <<m>> \o SortedStrsDescending(S \ {m})

\* sorted() of a set of texts
RECURSIVE SortedStrs(_)
SortedStrs(S) ==
    IF S = {} THEN <<>>
    ELSE LET m == CHOOSE x \in S : \A y \in S \ {x} : StrLess(x, y)
         IN <<m>> \o SortedStrs(S \ {m})

RECURSIVE SeqSum(_)
SeqSum(s) == IF s = <<>> THEN 0 ELSE Head(s) + SeqSum(Tail(s))

Range(s) == {s[i] : i \in 1..Len(s)}

\* Series.astype(str) on a text-or-missing cell
astype_str(c) == IF isna(c) THEN <<"n", "a", "n">> ELSE c.s

\* pd.to_numeric(errors='coerce').fillna(0)
to_numeric_fillna0(c) == IF IsNum(c) THEN c.n ELSE 0

(***************************************************************************)
(* Texts of the program                                                    *)
(***************************************************************************)
sNan == <<"n", "a", "n">>
sNAN == <<"N", "A", "N">>
sARB == <<"A", "R", "B">>
sRO == <<"R", "O">>
sAll == <<"A", "l", "l">>
sGrandTotal == <<"G", "r", "a", "n", "d", " ", "T", "o", "t", "a", "l">>

Apr == <<"A", "p", "r">>
May == <<"M", "a", "y">>
Jun == <<"J", "u", "n">>
Jul == <<"J", "u", "l">>
Aug == <<"A", "u", "g">>
Sep == <<"S", "e", "p">>
Oct == <<"O", "c", "t">>
Nov == <<"N", "o", "v">>
Dec == <<"D", "e", "c">>

months == <<Apr, May, Jun, Jul, Aug, Sep, Oct, Nov, Dec>>

AMRAVATI == <<"A", "M", "R", "A", "V", "A", "T", "I">>
CHAUFULA_SZZ == <<"C", "H", "A", "U", "F", "U", "L", "A", "_", "S", "Z", "Z">>
CHIKHALI == <<"C", "H", "I", "K", "H", "A", "L", "I">>
KOLHAPUR_WS == <<"K", "O", "L", "H", "A", "P", "U", "R", "_", "W", "S">>
NAGPUR_KAMPTHEE_ROAD ==
    <<"N", "A", "G", "P", "U", "R", "_", "K", "A", "M", "P", "T", "H", "E", "E", " ", "R", "O", "A", "D">>
NAGPUR_WARDHAMAN_NGR ==
    <<"N", "A", "G", "P", "U", "R", "_", "W", "A", "R", "D", "H", "A", "M", "A", "N", " ", "N", "G", "R">>
SHIKRAPUR_SZS == <<"S", "H", "I", "K", "R", "A", "P", "U", "R", "_", "S", "Z", "S">>
WAGHOLI == <<"W", "A", "G", "H", "O", "L", "I">>
YAVATMAL == <<"Y", "A", "V", "A", "T", "M", "A", "L">>
NAGPUR_WARDHAMAN_NGR_CQ == NAGPUR_WARDHAMAN_NGR \o <<"_", "C", "Q">>

AMT == <<"A", "M", "T">>
CHA == <<"C", "H", "A">>
CHI == <<"C", "H", "I">>
KOL == <<"K", "O", "L">>
HO == <<"H", "O">>
CITY == <<"C", "I", "T", "Y">>
SHI == <<"S", "H", "I">>
WAG == <<"W", "A", "G">>
YAT == <<"Y", "A", "T">>
CQ == <<"C", "Q">>

dealer_mapping_keys ==
    <<AMRAVATI, CHAUFULA_SZZ, CHIKHALI, KOLHAPUR_WS, NAGPUR_KAMPTHEE_ROAD,
      NAGPUR_WARDHAMAN_NGR, SHIKRAPUR_SZS, WAGHOLI, YAVATMAL, NAGPUR_WARDHAMAN_NGR_CQ>>

dealer_mapping_values == <<AMT, CHA, CHI, KOL, HO, CITY, SHI, WAG, YAT, CQ>>

\* dealer_mapping[k] for a key k of the dict
dealer_mapping(k) ==
    dealer_mapping_values[CHOOSE i \in 1..Len(dealer_mapping_keys) : dealer_mapping_keys[i] = k]

\* a lookup that ignores the case of the location
Dealer_CodeIgnoringCase(loc) ==
    IF IsStr(loc) /\ upper(loc.s) \in Range(dealer_mapping_keys)
    THEN Str(dealer_mapping(upper(loc.s)))
    ELSE loc

\* df['Dealer Location'].map(dealer_mapping).fillna(df['Dealer Location']) on one cell
Dealer_Code(loc) ==
    IF IsStr(loc) /\ loc.s \in Range(dealer_mapping_keys) THEN Str(dealer_mapping(loc.s)) ELSE loc

\* df['Fiscal Month'].astype(str).str.strip().str[:3] on one cell
Month(fm) == Prefix(strip(astype_str(fm)), 3)

\* df['Claim arbitration ID'].astype(str).replace('nan', '').replace('', np.nan) on one cell
CleanArbitrationId(c) ==
    LET s == astype_str(c)
        s1 == IF s = sNan THEN <<>> ELSE s
    IN IF s1 = <<>> THEN NaN ELSE Str(s1)

\* a test that does not trim the id
is_arbitrationUntrimmed(prog, value) ==
    IF isna(value) THEN FALSE
    ELSE LET v == upper(value.s)
         IN /\ startswith(v, sARB)
            /\ v # sNAN
            /\ (prog = "app" => v # <<>>)

is_arbitration(prog, value) ==
    IF isna(value) THEN FALSE
    ELSE LET v == upper(strip(value.s))
         IN /\ startswith(v, sARB)
            /\ v # sNAN
            /\ (prog = "app" => v # <<>>)

(***************************************************************************)
(* DataFrames                                                              *)
(***************************************************************************)
DataFrame(cols, rows) == [cols |-> cols, rows |-> rows]

\* a source frame: the set of its column names and its rows
SourceFrame(cols, rows) == [cols |-> cols, rows |-> rows]

\* pd.DataFrame()
EmptyFrame == DataFrame(<<>>, <<>>)

\* a test that finds rows in every frame
emptyOfNoFrame(df) == FALSE

\* DataFrame.empty: no rows or no columns
empty(df) == df.rows = <<>> \/ df.cols = <<>>

DivisionCol == <<"Division">>
GrandTotal == Str(sGrandTotal)

\* the column label f'{prefix} {month}'
MonthCol(prefix, month) == <<prefix, month>>

MonthCols(prefix) == [i \in 1..Len(months) |-> MonthCol(prefix, months[i])]

\* df[col].sum(): NaN cells are skipped
ColumnSum(rows, col) ==
    SeqSum([i \in 1..Len(rows) |-> IF IsNum(rows[i][col]) THEN rows[i][col].n ELSE 0])

\* df[df['Division'] == division]
RowsOfDivision(df, division) == SelectSeq(df.rows, LAMBDA r : r[DivisionCol] = division)

(***************************************************************************)
(* process_warranty_data: the ledger 'Warranty Debit.xlsx'                 *)
(***************************************************************************)
LedgerColumns ==
    {"Dealer Location", "Fiscal Month", "Claim arbitration ID",
     "Total Claim Amount", "Credit Note Amount", "Debit Note Amount"}

\* a routine that asks for no column
LedgerRequiredOfNoColumn(prog) == {}

\* the columns the routine reads without testing for them
LedgerRequired(prog) ==
    IF prog = "app" THEN LedgerColumns \ {"Total Claim Amount"} ELSE LedgerColumns

\* the row of df after the cleaning statements
CleanLedgerRow(r) ==
    [Dealer_Location |-> r.Dealer_Location,
     Fiscal_Month |-> r.Fiscal_Month,
     Claim_arbitration_ID |-> CleanArbitrationId(r.Claim_arbitration_ID),
     Credit_Note_Amount |-> to_numeric_fillna0(r.Credit_Note_Amount),
     Debit_Note_Amount |-> to_numeric_fillna0(r.Debit_Note_Amount),
     Dealer_Code |-> Dealer_Code(r.Dealer_Location),
     Month |-> Month(r.Fiscal_Month)]

CleanLedger(rows) == [i \in 1..Len(rows) |-> CleanLedgerRow(rows[i])]

DealerCodes(df) == {df[i].Dealer_Code : i \in 1..Len(df)}

\* sorted(df['Dealer_Code'].unique()) raises TypeError when a missing code (a float)
\* is compared with a text
SortedRaises(df) == NaN \in DealerCodes(df) /\ DealerCodes(df) # {NaN}

\* dealers = sorted(df['Dealer_Code'].unique())
dealers(df) ==
    IF DealerCodes(df) = {NaN} THEN <<NaN>>
    ELSE [i \in 1..Cardinality(DealerCodes(df)) |->
            Str(SortedStrs({c.s : c \in DealerCodes(df)})[i])]

\* a selection that keeps the rows of every month
month_dataOfAnyMonth(df, month) == df

\* a selection that ignores the case of the month key
month_dataIgnoringCase(df, month) == SelectSeq(df, LAMBDA r : upper(r.Month) = upper(month))

\* df[df['Month'] == month]
month_data(df, month) == SelectSeq(df, LAMBDA r : r.Month = month)

\* month_data.groupby('Dealer_Code')[amount].sum(), left-merged on Division and
\* fillna(0): groupby drops the rows whose key is missing
GroupSum(rows, dealer, amount) ==
    SeqSum([i \in 1..Len(rows) |->
              IF ~isna(dealer) /\ rows[i].Dealer_Code = dealer THEN rows[i][amount] ELSE 0])

\* the Division cell of a summary row: fillna(0) also fills a missing Division
DivisionCell(dealer) == IF isna(dealer) THEN Num(0) ELSE dealer

\* credit_df / debit_df before the Grand Total row
NoteRows(df, prefix, amount, total) ==
    [i \in 1..Len(dealers(df)) |->
        LET d == dealers(df)[i]
            val(m) == IF month_data(df, m) = <<>> THEN 0 ELSE GroupSum(month_data(df, m), d, amount)
        IN [c \in {DivisionCol, <<total>>} \cup Range(MonthCols(prefix)) |->
               IF c = DivisionCol THEN DivisionCell(d)
               ELSE IF c = <<total>> THEN Num(SeqSum([k \in 1..Len(months) |-> val(months[k])]))
               ELSE Num(val(c[2]))]]

\* a grand total that copies the first row
GrandTotalRowOfFirstRow(cols, rows) ==
    [c \in Range(cols) |->
        IF c = DivisionCol THEN GrandTotal ELSE Num(ColumnSum(SubSeq(rows, 1, Min(1, Len(rows))), c))]

\* grand_total = {'Division': 'Grand Total'}; for col in df.columns[1:]: df[col].sum()
GrandTotalRow(cols, rows) ==
    [c \in Range(cols) |-> IF c = DivisionCol THEN GrandTotal ELSE Num(ColumnSum(rows, c))]

\* pd.concat([df, pd.DataFrame([grand_total])], ignore_index=True)
WithGrandTotal(cols, rows) == DataFrame(cols, Append(rows, GrandTotalRow(cols, rows)))

CreditCols == <<DivisionCol>> \o MonthCols("Credit Note") \o <<<<"Total Credit">>>>
DebitCols == <<DivisionCol>> \o MonthCols("Debit Note") \o <<<<"Total Debit">>>>
ArbitrationCols == <<DivisionCol>> \o MonthCols("Claim Arbitration") \o <<<<"Pending Claim Arbitration">>>>

credit_df(df) == WithGrandTotal(CreditCols, NoteRows(df, "Credit Note", "Credit_Note_Amount", "Total Credit"))
debit_df(df) == WithGrandTotal(DebitCols, NoteRows(df, "Debit Note", "Debit_Note_Amount", "Total Debit"))

\* the debit amounts of the month's rows that carry an arbitration id
ArbitrationSum(prog, df, m, dealer) ==
    GroupSum(SelectSeq(month_data(df, m), LAMBDA r : is_arbitration(prog, r.Claim_arbitration_ID)),
             dealer, "Debit_Note_Amount")

\* the remainder without the clip at 0
PendingUnclipped(prog, total_debit, claimed) == total_debit - claimed

\* (Total Debit - claimed): clipped at 0 by app.py, left as it is by main.py
PendingClaimArbitration(prog, total_debit, claimed) ==
    IF prog = "app" THEN Max(0, total_debit - claimed) ELSE total_debit - claimed

ArbitrationRows(prog, df) ==
    [i \in 1..Len(dealers(df)) |->
        LET d == dealers(df)[i]
            claimed == SeqSum([k \in 1..Len(months) |-> ArbitrationSum(prog, df, months[k], d)])
            \* merge with debit_df[Division != 'Grand Total'][['Division', 'Total Debit']]
            total_debit == NoteRows(df, "Debit Note", "Debit_Note_Amount", "Total Debit")[i][<<"Total Debit">>].n
        IN [c \in Range(ArbitrationCols) |->
               IF c = DivisionCol THEN DivisionCell(d)
               ELSE IF c = <<"Pending Claim Arbitration">>
                    THEN Num(PendingClaimArbitration(prog, total_debit, claimed))
               ELSE Num(ArbitrationSum(prog, df, c[2], d))]]

arbitration_df(prog, df) == WithGrandTotal(ArbitrationCols, ArbitrationRows(prog, df))

\* Filtering (app.py) or row-wise apply (main.py) on a month without rows depends on
\* the pandas release: newer ones give an empty frame that still has its columns, others
\* one on which the following groupby / column assignment raises.
SomeMonthEmpty(df) == \E k \in 1..Len(months) : month_data(df, months[k]) = <<>>

NoWarrantyData == <<None, None, None, None>>

\* a routine that returns the credit table and the rows without the other two tables
process_warranty_dataOfCreditOnly(prog, file) ==
    IF file.state # "ok" THEN {NoWarrantyData}
    ELSE IF ~(LedgerRequired(prog) \subseteq file.cols) THEN {NoWarrantyData}
    ELSE LET df == CleanLedger(file.rows)
             result == <<credit_df(df), None, None,
                         SourceFrame(file.cols \cup {"Dealer_Code", "Month"}, df)>>
         IN IF SortedRaises(df) THEN {NoWarrantyData}
            ELSE IF SomeMonthEmpty(df) THEN {result, NoWarrantyData}
            ELSE {result}

\* the values process_warranty_data can return for a file
process_warranty_data(prog, file) ==
    IF file.state # "ok" THEN {NoWarrantyData}
    ELSE IF ~(LedgerRequired(prog) \subseteq file.cols) THEN {NoWarrantyData}
    ELSE LET df == CleanLedger(file.rows)
             result == <<credit_df(df), debit_df(df), arbitration_df(prog, df),
                         SourceFrame(file.cols \cup {"Dealer_Code", "Month"}, df)>>
         IN IF SortedRaises(df) THEN {NoWarrantyData}
            ELSE IF SomeMonthEmpty(df) THEN {result, NoWarrantyData}
            ELSE {result}

(***************************************************************************)
(* The three Division-keyed sheets.  A file is [state, cols, rows]: state  *)
(* "missing" (find_data_file returns None), "unreadable" (pd.read_excel    *)
(* raises) or "ok"; a row is a function from the sheet's column names to   *)
(* cells.                                                                  *)
(***************************************************************************)
\* df['Division'].astype(str).str.strip(), then
\* df[df['Division'].notna() & (df['Division'] != '') & (df['Division'] != 'nan')]
CleanDivision(rows) ==
    SelectSeq([i \in 1..Len(rows) |->
                  [rows[i] EXCEPT !["Division"] = Str(strip(astype_str(rows[i]["Division"])))]],
              LAMBDA r : r["Division"].s # <<>> /\ r["Division"].s # sNan)

\* sorted(df['Division'].unique())
Divisions(rows) ==
    LET S == {rows[i]["Division"].s : i \in 1..Len(rows)}
    IN [i \in 1..Cardinality(S) |-> Str(SortedStrs(S)[i])]

\* df[df['Division'] == division] on source rows
div_data(rows, division) == SelectSeq(rows, LAMBDA r : r["Division"] = division)

\* a count of the cells that hold a number
NotNaCountOfNumbers(rows, col) == Len(SelectSeq(rows, LAMBDA r : IsNum(r[col])))

\* Series.notna().sum()
NotNaCount(rows, col) == Len(SelectSeq(rows, LAMBDA r : ~isna(r[col])))

\* Series.sum() of a cleaned numeric source column
SourceSum(rows, col) == SeqSum([i \in 1..Len(rows) |-> rows[i][col].n])

\* the columns of `wanted` (in order) that `have` holds
Available(wanted, have) == SelectSeq(wanted, LAMBDA c : c \in have)

\* pd.to_numeric(df[col], errors='coerce').fillna(0) for each col of numeric_cols in the sheet
CleanNumeric(rows, numeric_cols) ==
    [i \in 1..Len(rows) |->
        [c \in DOMAIN rows[i] |->
            IF c \in numeric_cols THEN Num(to_numeric_fillna0(rows[i][c])) ELSE rows[i][c]]]

(***************************************************************************)
(* process_current_month_warranty                                          *)
(***************************************************************************)
PendingRequired == {"Division", "Pending Claims Spares", "Pending Claims Labour"}

PendingCols ==
    <<DivisionCol, <<"Pending Claims Spares Count">>, <<"Pending Claims Labour Count">>,
      <<"Total Pending Claims">>>>

PendingRows(df) ==
    [i \in 1..Len(Divisions(df)) |->
        LET d == Divisions(df)[i]
            spares_count == NotNaCount(div_data(df, d), "Pending Claims Spares")
            labour_count == NotNaCount(div_data(df, d), "Pending Claims Labour")
        IN [c \in Range(PendingCols) |->
               IF c = DivisionCol THEN d
               ELSE IF c = <<"Pending Claims Spares Count">> THEN Num(spares_count)
               ELSE IF c = <<"Pending Claims Labour Count">> THEN Num(labour_count)
               ELSE Num(spares_count + labour_count)]]

process_current_month_warranty(prog, file) ==
    IF file.state # "ok" THEN <<None, None>>
    ELSE IF ~(PendingRequired \subseteq file.cols) THEN <<None, None>>
    ELSE LET df == CleanDivision(file.rows)
         IN \* no division left: pd.DataFrame([]) has no count column, the KeyError is caught
            IF df = <<>> THEN <<None, None>>
            ELSE <<WithGrandTotal(PendingCols, PendingRows(df)), SourceFrame(file.cols, df)>>

(***************************************************************************)
(* process_compensation_claim                                              *)
(***************************************************************************)
IsDigit(c) == ord(c) >= ord("0") /\ ord(c) <= ord("9")

\* the texts float() parses, among the texts of the model: digit strings
IsNumeral(s) == s # <<>> /\ \A i \in 1..Len(s) : IsDigit(s[i])

RECURSIVE NumeralValue(_)
NumeralValue(s) ==
    IF s = <<>> THEN 0 ELSE 10 * NumeralValue(SubSeq(s, 1, Len(s) - 1)) + (ord(s[Len(s)]) - ord("0"))

\* str(n) of a natural number
RECURSIVE IntText(_)
IntText(n) ==
    IF n < 10 THEN <<CodePoints[ord("0") + n]>>
    ELSE IntText(n \div 10) \o <<CodePoints[ord("0") + (n % 10)]>>

\* a text float() parses to infinity, among the texts of the model
sInf == <<"i", "n", "f">>

\* int(float(x)) raises OverflowError: x parses to infinity
OverflowError(x) == IsStr(x) /\ strip(x.s) = sInf

\* the value format_ro_id returns when it returns
format_ro_id(x) ==
    IF isna(x) \/ (IsStr(x) /\ strip(x.s) = <<>>) THEN <<>>
    ELSE IF IsNum(x) THEN sRO \o IntText(x.n)
    ELSE IF IsNumeral(strip(x.s)) THEN sRO \o IntText(NumeralValue(strip(x.s)))
    ELSE LET value_str == strip(x.s)
         IN IF ~startswith(value_str, sRO) THEN sRO \o value_str ELSE value_str

CompensationRequired(prog) ==
    IF prog = "app"
    THEN <<"Division", "RO Id.", "Registration No.", "RO Date", "RO Bill Date",
           "Chassis No.", "Model Group", "Claim Amount", "Claim Date",
           "Request No.", "Request Date", "Request Status",
           "Claim Approved Amt.", "No. of Days">>
    ELSE <<"Division", "RO Id.", "Registration No.", "RO Date", "RO Bill Date",
           "Chassis No.", "Model Group", "Claim Amount", "Request Status",
           "Claim Approved Amt.", "No. of Days">>

CompensationNumeric == {"Claim Amount", "Claim Approved Amt.", "No. of Days"}

RECURSIVE Lcm(_)
\* the least common multiple of 1..n
Lcm(n) == IF n <= 1 THEN 1 ELSE CHOOSE m \in 1..(n * Lcm(n - 1)) :
                                    /\ m % n = 0 /\ m % Lcm(n - 1) = 0
                                    /\ \A k \in 1..(m - 1) : ~(k % n = 0 /\ k % Lcm(n - 1) = 0)

\* 'Avg No. of Days' is held in units of 1/AvgUnit day, which keeps the mean of at most
\* MaxRows integers, and the mean of at most MaxRows such means, exact
AvgUnit == Lcm(MaxRows) * Lcm(MaxRows)

\* Series.mean() of integers, in units of 1/AvgUnit
Mean(values) == (SeqSum(values) * AvgUnit) \div Len(values)

\* app.py's date_cols
date_cols == {"RO Date", "RO Bill Date", "Claim Date", "Request Date"}

\* pd.to_datetime(errors='coerce') on one cell; a date is held as the number of its day
to_datetime(c) == IF IsNum(c) THEN c ELSE NaN

\* df[available_columns].copy() with the Division column cleaned
CompensationCleaned(prog, file) ==
    LET available == Range(Available(CompensationRequired(prog), file.cols))
        picked == [i \in 1..Len(file.rows) |-> [c \in available |-> file.rows[i][c]]]
    IN IF "Division" \in available THEN CleanDivision(picked) ELSE picked

\* format_ro_id raises on a row: main.py catches (ValueError, TypeError) only, app.py
\* catches everything
FormatRoIdRaises(prog, file) ==
    /\ prog = "main"
    /\ "RO Id." \in file.cols
    /\ \E i \in 1..Len(CompensationCleaned(prog, file)) :
          OverflowError(CompensationCleaned(prog, file)[i]["RO Id."])

\* df[available_columns].copy() and the cleaning statements
CompensationFiltered(prog, file) ==
    LET available == Range(Available(CompensationRequired(prog), file.cols))
        cleaned == CompensationCleaned(prog, file)
        formatted == [i \in 1..Len(cleaned) |->
                        [c \in available |->
                            IF c = "RO Id." THEN Str(format_ro_id(cleaned[i][c]))
                            ELSE IF prog = "app" /\ c \in date_cols THEN to_datetime(cleaned[i][c])
                            ELSE cleaned[i][c]]]
    IN SourceFrame(available, CleanNumeric(formatted, CompensationNumeric))

\* the keys of summary_row, in insertion order; pd.DataFrame([]) has none
CompensationCols(df) ==
    IF df.rows = <<>> THEN <<DivisionCol>>
    ELSE <<DivisionCol, <<"Total Claims">>>>
         \o (IF "Claim Amount" \in df.cols THEN <<<<"Total Claim Amount">>>> ELSE <<>>)
         \o (IF "Claim Approved Amt." \in df.cols THEN <<<<"Total Approved Amount">>>> ELSE <<>>)
         \o (IF "No. of Days" \in df.cols THEN <<<<"Avg No. of Days">>>> ELSE <<>>)

CompensationRows(df) ==
    [i \in 1..Len(Divisions(df.rows)) |->
        LET d == Divisions(df.rows)[i]
            dd == div_data(df.rows, d)
        IN [c \in Range(CompensationCols(df)) |->
               IF c = DivisionCol THEN d
               ELSE IF c = <<"Total Claims">> THEN Num(Len(dd))
               ELSE IF c = <<"Total Claim Amount">> THEN Num(SourceSum(dd, "Claim Amount"))
               ELSE IF c = <<"Total Approved Amount">> THEN Num(SourceSum(dd, "Claim Approved Amt."))
               ELSE Num(Mean([k \in 1..Len(dd) |-> dd[k]["No. of Days"].n]))]]

\* a grand total that is the sum in every column
CompensationGrandTotalOfSums(prog, cols, rows) == GrandTotalRow(cols, rows)

\* app.py sums every numeric column; main.py sums three and takes the mean of the averages
CompensationGrandTotal(prog, cols, rows) ==
    [c \in Range(cols) |->
        IF c = DivisionCol THEN GrandTotal
        ELSE IF prog = "main" /\ c = <<"Avg No. of Days">>
             THEN Num(ColumnSum(rows, c) \div Len(rows))
        ELSE Num(ColumnSum(rows, c))]

\* a routine that adds the Grand Total row also when the sheet has no Division column
process_compensation_claimOfAnySheet(prog, file) ==
    IF file.state # "ok" THEN <<None, None>>
    ELSE IF Available(CompensationRequired(prog), file.cols) = <<>> THEN <<None, None>>
    ELSE IF FormatRoIdRaises(prog, file) THEN <<None, None>>
    ELSE LET df == CompensationFiltered(prog, file)
             cols == CompensationCols(df)
             rows == CompensationRows(df)
         IN IF "Division" \in df.cols
            THEN <<DataFrame(cols, Append(rows, CompensationGrandTotal(prog, cols, rows))), df>>
            ELSE <<DataFrame(<<DivisionCol>>, <<[c \in {DivisionCol} |-> GrandTotal]>>), df>>

process_compensation_claim(prog, file) ==
    IF file.state # "ok" THEN <<None, None>>
    ELSE IF Available(CompensationRequired(prog), file.cols) = <<>> THEN <<None, None>>
    \* the OverflowError leaves .apply and is caught by the routine's except Exception
    ELSE IF FormatRoIdRaises(prog, file) THEN <<None, None>>
    ELSE LET df == CompensationFiltered(prog, file)
             cols == CompensationCols(df)
             rows == CompensationRows(df)
         IN IF "Division" \in df.cols
            THEN <<DataFrame(cols, Append(rows, CompensationGrandTotal(prog, cols, rows))), df>>
            ELSE <<EmptyFrame, df>>

(***************************************************************************)
(* process_pr_approval                                                     *)
(***************************************************************************)
PrNumeric(prog) ==
    IF prog = "app"
    THEN {"Total Cost of Repair", "Req. Claim Amt from M&M", "App. Claim Amt from M&M"}
    ELSE {"App. Claim Amt from M&M"}

\* main.py's summary_columns
PrSummaryColumns == <<"Division", "PA Request No.", "PA Date", "Request Type", "App. Claim Amt from M&M">>

\* the frame the summary is computed from: app.py cleans the whole sheet, main.py a copy
\* of the summary_columns present
PrSummarySource(prog, file) ==
    LET available == IF prog = "app" THEN file.cols
                     ELSE Range(Available(PrSummaryColumns, file.cols))
        picked == [i \in 1..Len(file.rows) |-> [c \in available |-> file.rows[i][c]]]
        cleaned == IF "Division" \in available THEN CleanDivision(picked) ELSE picked
    IN SourceFrame(available, CleanNumeric(cleaned, PrNumeric(prog)))

\* the request types counted by main.py: value_counts() skips missing cells, blank
\* texts are left out
RequestTypes(prog, df) ==
    IF prog = "app" \/ "Request Type" \notin df.cols THEN {}
    ELSE {df.rows[i]["Request Type"].s : i \in {k \in 1..Len(df.rows) :
              /\ IsStr(df.rows[k]["Request Type"])
              /\ strip(df.rows[k]["Request Type"].s) # <<>>}}

\* the label f'{req_type} Count'
CountCol(req_type) == <<"Count", req_type>>

\* the keys of the summary rows (the count columns in text order)
PrCols(prog, df) ==
    IF df.rows = <<>> THEN <<DivisionCol>>
    ELSE <<DivisionCol, <<"Total Requests">>>>
         \o (IF prog = "app" /\ "Total Cost of Repair" \in df.cols
             THEN <<<<"Total Cost of Repair">>>> ELSE <<>>)
         \o (IF prog = "app" /\ "Req. Claim Amt from M&M" \in df.cols
             THEN <<<<"Req. Claim Amt from M&M">>>> ELSE <<>>)
         \o (IF "App. Claim Amt from M&M" \in df.cols THEN <<<<"Total Approved Amount">>>> ELSE <<>>)
         \o [i \in 1..Cardinality(RequestTypes(prog, df)) |->
                CountCol(SortedStrs(RequestTypes(prog, df))[i])]

PrRows(prog, df) ==
    [i \in 1..Len(Divisions(df.rows)) |->
        LET d == Divisions(df.rows)[i]
            dd == div_data(df.rows, d)
            count(ty) == Len(SelectSeq(dd, LAMBDA r : r["Request Type"] = Str(ty)))
        IN [c \in Range(PrCols(prog, df)) |->
               IF c = DivisionCol THEN d
               ELSE IF c = <<"Total Requests">> THEN Num(Len(dd))
               ELSE IF c = <<"Total Cost of Repair">> THEN Num(SourceSum(dd, "Total Cost of Repair"))
               ELSE IF c = <<"Req. Claim Amt from M&M">> THEN Num(SourceSum(dd, "Req. Claim Amt from M&M"))
               ELSE IF c = <<"Total Approved Amount">> THEN Num(SourceSum(dd, "App. Claim Amt from M&M"))
               \* a type the division has no request of is a missing cell of the frame
               ELSE IF count(c[2]) = 0 THEN NaN ELSE Num(count(c[2]))]]

process_pr_approval(prog, file) ==
    IF file.state # "ok" THEN <<None, None>>
    ELSE IF prog = "app" /\ "Division" \notin file.cols THEN <<None, None>>
    ELSE IF prog = "main" /\ Available(PrSummaryColumns, file.cols) = <<>> THEN <<None, None>>
    ELSE LET df == PrSummarySource(prog, file)
             \* app.py returns the cleaned sheet, main.py the sheet as it was read
             source == IF prog = "app" THEN df ELSE SourceFrame(file.cols, file.rows)
         IN IF "Division" \in df.cols
            THEN <<WithGrandTotal(PrCols(prog, df), PrRows(prog, df)), source>>
            ELSE <<EmptyFrame, source>>

(***************************************************************************)
(* The cache and the startup statements                                    *)
(***************************************************************************)
Keys ==
    {"credit_df", "debit_df", "arbitration_df", "source_df",
     "current_month_df", "current_month_source_df",
     "compensation_df", "compensation_source_df",
     "pr_approval_df", "pr_approval_source_df"}

\* WARRANTY_DATA[...] , WARRANTY_DATA[...] = process_warranty_data()
Startup1 ==
    /\ pc = 0
    /\ \E r \in process_warranty_data(program, ledgerFile) :
          WARRANTY_DATA' = [WARRANTY_DATA EXCEPT !["credit_df"] = r[1], !["debit_df"] = r[2],
                                                 !["arbitration_df"] = r[3], !["source_df"] = r[4]]
    /\ pc' = 1
    /\ UNCHANGED <<authVars, program, ledgerFile, pendingFile, compFile, prFile, response>>

Startup2 ==
    /\ pc = 1
    /\ LET r == process_current_month_warranty(program, pendingFile)
       IN WARRANTY_DATA' = [WARRANTY_DATA EXCEPT !["current_month_df"] = r[1],
                                                 !["current_month_source_df"] = r[2]]
    /\ pc' = 2
    /\ UNCHANGED <<authVars, program, ledgerFile, pendingFile, compFile, prFile, response>>

Startup3 ==
    /\ pc = 2
    /\ LET r == process_compensation_claim(program, compFile)
       IN WARRANTY_DATA' = [WARRANTY_DATA EXCEPT !["compensation_df"] = r[1],
                                                 !["compensation_source_df"] = r[2]]
    /\ pc' = 3
    /\ UNCHANGED <<authVars, program, ledgerFile, pendingFile, compFile, prFile, response>>

Startup4 ==
    /\ pc = 3
    /\ LET r == process_pr_approval(program, prFile)
       IN WARRANTY_DATA' = [WARRANTY_DATA EXCEPT !["pr_approval_df"] = r[1],
                                                 !["pr_approval_source_df"] = r[2]]
    /\ pc' = 4
    /\ UNCHANGED <<authVars, program, ledgerFile, pendingFile, compFile, prFile, response>>

(***************************************************************************)
(* Request handlers                                                        *)
(***************************************************************************)
\* records that keep the missing cells
RecordsWithMissing(df) == IF df = None THEN <<>> ELSE df.rows

\* DataFrame.to_dict('records') followed by the NaN -> 0 loop
Records(df) ==
    IF df = None THEN <<>>
    ELSE [i \in 1..Len(df.rows) |->
            [c \in DOMAIN df.rows[i] |-> IF isna(df.rows[i][c]) THEN Num(0) ELSE df.rows[i][c]]]

NoRecords ==
    [credit |-> <<>>, debit |-> <<>>, arbitration |-> <<>>,
     currentMonth |-> <<>>, compensation |-> <<>>, prApproval |-> <<>>]

\* a handler that replaces the missing cells in the cached tables themselves
GetWarrantyDataInPlace ==
    /\ pc = 4
    /\ WARRANTY_DATA["credit_df"] # None
    /\ WARRANTY_DATA' =
          [k \in Keys |->
              IF k \in {"credit_df", "debit_df", "arbitration_df", "current_month_df",
                        "compensation_df", "pr_approval_df"} /\ WARRANTY_DATA[k] # None
              THEN DataFrame(WARRANTY_DATA[k].cols, Records(WARRANTY_DATA[k]))
              ELSE WARRANTY_DATA[k]]
    /\ response' = [status |-> 200, kind |-> "json",
                    body |-> [credit |-> Records(WARRANTY_DATA["credit_df"]),
                              debit |-> Records(WARRANTY_DATA["debit_df"]),
                              arbitration |-> Records(WARRANTY_DATA["arbitration_df"]),
                              currentMonth |-> Records(WARRANTY_DATA["current_month_df"]),
                              compensation |-> Records(WARRANTY_DATA["compensation_df"]),
                              prApproval |-> Records(WARRANTY_DATA["pr_approval_df"])]]
    /\ UNCHANGED <<authVars, program, ledgerFile, pendingFile, compFile, prFile, pc>>

\* a handler that answers while the startup statements are still running
GetWarrantyDataDuringStartup ==
    /\ pc >= 1
    /\ response' =
         IF WARRANTY_DATA["credit_df"] = None
         THEN [status |-> 200, kind |-> "json", body |-> NoRecords]
         ELSE [status |-> 200, kind |-> "json",
               body |-> [credit |-> Records(WARRANTY_DATA["credit_df"]),
                         debit |-> Records(WARRANTY_DATA["debit_df"]),
                         arbitration |-> Records(WARRANTY_DATA["arbitration_df"]),
                         currentMonth |-> Records(WARRANTY_DATA["current_month_df"]),
                         compensation |-> Records(WARRANTY_DATA["compensation_df"]),
                         prApproval |-> Records(WARRANTY_DATA["pr_approval_df"])]]
    /\ UNCHANGED <<authVars, program, ledgerFile, pendingFile, compFile, prFile, WARRANTY_DATA, pc>>

\* GET /api/warranty-data
GetWarrantyData ==
    /\ pc = 4
    /\ response' =
         IF WARRANTY_DATA["credit_df"] = None
         THEN [status |-> 200, kind |-> "json", body |-> NoRecords]
         ELSE [status |-> 200, kind |-> "json",
               body |-> [credit |-> Records(WARRANTY_DATA["credit_df"]),
                         debit |-> Records(WARRANTY_DATA["debit_df"]),
                         arbitration |-> Records(WARRANTY_DATA["arbitration_df"]),
                         currentMonth |-> Records(WARRANTY_DATA["current_month_df"]),
                         compensation |-> Records(WARRANTY_DATA["compensation_df"]),
                         prApproval |-> Records(WARRANTY_DATA["pr_approval_df"])]]
    /\ UNCHANGED <<authVars, program, ledgerFile, pendingFile, compFile, prFile, WARRANTY_DATA, pc>>

ExportTypes == {"credit", "debit", "arbitration", "currentmonth", "compensation", "pr_approval"}

\* the cache entry an export type reads; app.py sends every other type to arbitration_df
ExportKey(export_type) ==
    IF export_type = "currentmonth" THEN "current_month_df"
    ELSE IF export_type = "compensation" THEN "compensation_df"
    ELSE IF export_type = "pr_approval" THEN "pr_approval_df"
    ELSE IF export_type = "credit" THEN "credit_df"
    ELSE IF export_type = "debit" THEN "debit_df"
    ELSE "arbitration_df"

\* a filter that leaves out the grand total row
df_exportWithoutGrandTotal(df, selected_division) ==
    IF selected_division # sAll /\ selected_division # sGrandTotal
    THEN DataFrame(df.cols, RowsOfDivision(df, Str(selected_division)))
    ELSE df

\* the division filter of the Summary sheet
df_export(df, selected_division) ==
    IF selected_division # sAll /\ selected_division # sGrandTotal
    THEN LET selected == RowsOfDivision(df, Str(selected_division))
             grand_total_row == RowsOfDivision(df, GrandTotal)
         IN IF grand_total_row # <<>>
            THEN DataFrame(df.cols, selected \o grand_total_row)
            ELSE DataFrame(df.cols, selected)
    ELSE df

\* a reply of POST /api/export-to-excel that is an error; division and type record the
\* request the reply answers
ExportError(selected_division, export_type, status, detail) ==
    [status |-> status, kind |-> "error", detail |-> detail,
     division |-> selected_division, type |-> export_type]

\* a StreamingResponse with a workbook: the Summary sheet, then the sheets added by
\* wb.create_sheet()
WorkbookResponse(selected_division, export_type, summary, details) ==
    [status |-> 200, kind |-> "workbook",
     division |-> selected_division, type |-> export_type,
     summary |-> summary, details |-> details]

\* a sheet made by wb.create_sheet(): the ending of its title, its header cells and
\* its rows
DetailSheet(title, cols, rows) == [title |-> title, cols |-> cols, rows |-> rows]

SpecificDivision(selected_division) ==
    selected_division # sAll /\ selected_division # sGrandTotal

\* is_empty_or_hyphen of main.py's export
is_empty_or_hyphen(value) ==
    \/ isna(value)
    \/ strip(value.s) = <<>>
    \/ strip(value.s) = <<"-">>
    \/ upper(strip(value.s)) = sNAN

\* has_valid_arb_id of main.py's export
has_valid_arb_id(value) ==
    /\ ~isna(value)
    /\ startswith(upper(strip(value.s)), sARB)
    /\ upper(strip(value.s)) # sNAN
    /\ upper(strip(value.s)) # <<>>

\* month_order.index(x) if x in month_order else 999
Month_Order(x) ==
    LET month_order == months \o <<<<"J", "a", "n">>, <<"F", "e", "b">>, <<"M", "a", "r">>>>
    IN IF x \in Range(month_order)
       THEN (CHOOSE k \in 1..Len(month_order) : month_order[k] = x) - 1
       ELSE 999

RECURSIVE sort_values(_)
\* detail_df.sort_values('Month_Order'): the sort of numpy keeps rows of one key in
\* their order on frames this short
sort_values(rows) ==
    IF rows = <<>> THEN <<>>
    ELSE LET first == CHOOSE i \in 1..Len(rows) :
                         /\ \A j \in 1..Len(rows) :
                               Month_Order(rows[i].Month) <= Month_Order(rows[j].Month)
                         /\ \A j \in 1..(i - 1) :
                               Month_Order(rows[j].Month) # Month_Order(rows[i].Month)
         IN <<rows[first]>>
            \o sort_values(SubSeq(rows, 1, first - 1) \o SubSeq(rows, first + 1, Len(rows)))

\* the header cells of a sheet of ledger rows: the required columns the ledger has,
\* of those whose cells the rows carry here, the debit column under the name the sheet
\* gives it
LedgerDetailCols(source_cols, required, debit_name) ==
    {IF c = "Debit Note Amount" THEN debit_name ELSE c :
        c \in (required \cap source_cols) \ {"Total Claim Amount"}}

\* the cells of a ledger row under those headers
LedgerDetailRow(r, cols) ==
    [c \in cols |->
        IF c = "Fiscal Month" THEN r.Fiscal_Month
        ELSE IF c = "Dealer Location" THEN r.Dealer_Location
        ELSE IF c = "Claim arbitration ID" THEN r.Claim_arbitration_ID
        ELSE IF c = "Credit Note Amount" THEN Num(r.Credit_Note_Amount)
        ELSE Num(r.Debit_Note_Amount)]

LedgerDetailSheet(title, source_cols, required, debit_name, rows) ==
    LET cols == LedgerDetailCols(source_cols, required, debit_name)
    IN DetailSheet(title, cols,
                   [i \in 1..Len(rows) |-> LedgerDetailRow(sort_values(rows)[i], cols)])

\* reverse_mapping.get(selected_division)
reverse_mapping(selected_division) ==
    IF selected_division \in Range(dealer_mapping_values)
    THEN Str(dealer_mapping_keys[CHOOSE i \in 1..Len(dealer_mapping_values) :
                                    dealer_mapping_values[i] = selected_division])
    ELSE None

\* an export that adds no sheet to the Summary sheet
LedgerDetailsOfNoSheet(data, selected_division, export_type) ==
    {[raised |-> FALSE, sheets |-> <<>>]}

\* Sheets 2 and 3 of main.py's credit, debit and arbitration exports.  A mask made by
\* Series.apply on a frame without rows is no boolean mask: depending on the pandas
\* release the selection keeps the columns, or loses them and the later
\* detail_df['Fiscal Month'] raises; both outcomes are in the set.  An outcome is the
\* sequence of the sheets made, or `raised`.
LedgerDetails(data, selected_division, export_type) ==
    LET made(sheets) == [raised |-> FALSE, sheets |-> sheets]
        raised_if(cond) == IF cond THEN {[raised |-> TRUE, sheets |-> <<>>]} ELSE {}
    IN IF ~SpecificDivision(selected_division) THEN {made(<<>>)}
       ELSE IF reverse_mapping(selected_division) = None \/ data["source_df"] = None
       THEN {made(<<DetailSheet("Detailed Data", {}, <<>>)>>)}
       ELSE LET source_df == data["source_df"]
                located == SelectSeq(source_df.rows,
                              LAMBDA r : r.Dealer_Location = reverse_mapping(selected_division))
                credited == SelectSeq(located, LAMBDA r : r.Credit_Note_Amount > 0)
                debited == SelectSeq(located, LAMBDA r : r.Debit_Note_Amount > 0)
                unclaimed(rows) ==
                    SelectSeq(rows, LAMBDA r : is_empty_or_hyphen(r.Claim_arbitration_ID))
                sheet2(required, debit_name, rows) ==
                    LedgerDetailSheet("Detailed Data", source_df.cols, required, debit_name, rows)
                common == {"Fiscal Month", "Dealer Location", "Claim arbitration ID",
                           "Claim Invoice Date", "Claim No", "Claim Date", "Chassis No",
                           "Ro Id", "Claim Type"}
            IN IF export_type = "credit"
               THEN {made(<<sheet2(common \cup {"Total Claim Amount", "Credit Note Amount"},
                                   "Debit Note Amount", unclaimed(credited))>>)}
                    \cup raised_if(credited = <<>>)
               ELSE IF export_type = "debit"
               THEN {made(<<sheet2(common \cup {"Total Claim Amount", "Debit Note Amount"},
                                   "Debit Note Amount", debited)>>)}
               ELSE {made(<<sheet2(common \cup {"Credit Note Amount", "Debit Note Amount"},
                                   "Arbitration Amount",
                                   SelectSeq(located,
                                       LAMBDA r : has_valid_arb_id(r.Claim_arbitration_ID))),
                            LedgerDetailSheet("Pending Arb", source_df.cols,
                                   common \cup {"Credit Note Amount", "Debit Note Amount"},
                                   "Pending Arbitration Amount", unclaimed(debited))>>)}
                    \cup raised_if(located = <<>> \/ debited = <<>>)

\* DataFrame.empty of a source frame
source_empty(df) == df.rows = <<>> \/ df.cols = {}

\* source_df[source_df['Division'] == selected_division], or the whole frame
DivisionDetail(source_df, selected_division) ==
    IF SpecificDivision(selected_division)
    THEN SelectSeq(source_df.rows, LAMBDA r : r["Division"] = Str(selected_division))
    ELSE source_df.rows

\* a detail sheet of the rows of a Division-keyed sheet, made only if there are rows
DivisionDetailSheets(title, source_df, rows) ==
    IF rows = <<>> THEN <<>> ELSE <<DetailSheet(title, source_df.cols, rows)>>

\* main.py's export_current_month_warranty
export_current_month_warranty(data, selected_division) ==
    LET summary_df == data["current_month_df"]
        source_df == data["current_month_source_df"]
        detail(title, col) ==
            IF source_df = None \/ source_empty(source_df) THEN <<>>
            ELSE DivisionDetailSheets(title, source_df,
                     SelectSeq(DivisionDetail(source_df, selected_division),
                               LAMBDA r : ~isna(r[col])))
    IN IF summary_df = None \/ empty(summary_df)
       THEN ExportError(selected_division, "currentmonth", 500,
                        "Export error: No current month warranty data available")
       ELSE WorkbookResponse(selected_division, "currentmonth",
                             df_export(summary_df, selected_division),
                             detail("Spares", "Pending Claims Spares")
                             \o detail("Labour", "Pending Claims Labour"))

\* main.py's export_compensation_claim and export_pr_approval
export_with_details(data, selected_division, export_type, no_data) ==
    LET summary_df == data[ExportKey(export_type)]
        source_df == data[IF export_type = "compensation" THEN "compensation_source_df"
                          ELSE "pr_approval_source_df"]
    IN IF summary_df = None \/ empty(summary_df)
       THEN ExportError(selected_division, export_type, 500, no_data)
       ELSE WorkbookResponse(selected_division, export_type,
                             df_export(summary_df, selected_division),
                             IF source_df = None \/ source_empty(source_df) THEN <<>>
                             ELSE DivisionDetailSheets("Details", source_df,
                                      DivisionDetail(source_df, selected_division)))

\* the replies of POST /api/export-to-excel
export_to_excel(prog, data, selected_division, export_type) ==
    LET df == data[ExportKey(export_type)]
    IN IF prog = "app"
       THEN IF df = None \/ empty(df)
            THEN {ExportError(selected_division, export_type, 500, "No data for " \o export_type)}
            ELSE {WorkbookResponse(selected_division, export_type,
                                   df_export(df, selected_division), <<>>)}
       ELSE IF export_type \notin ExportTypes
       THEN {ExportError(selected_division, export_type, 400, "Invalid export type")}
       ELSE IF export_type = "currentmonth"
       THEN {export_current_month_warranty(data, selected_division)}
       ELSE IF export_type = "compensation"
       THEN {export_with_details(data, selected_division, export_type,
                                 "Export error: No compensation claim data available")}
       ELSE IF export_type = "pr_approval"
       THEN {export_with_details(data, selected_division, export_type,
                                 "Export error: No PR Approval data available")}
       ELSE IF df = None \/ empty(df)
       THEN {ExportError(selected_division, export_type, 500, "No data available for export")}
       ELSE {IF details.raised
             THEN ExportError(selected_division, export_type, 500, "Export error")
             ELSE WorkbookResponse(selected_division, export_type,
                                   df_export(df, selected_division), details.sheets) :
                details \in LedgerDetails(data, selected_division, export_type)}

\* the division filters and export types of the requests
RequestDivisions == {sAll, sGrandTotal, AMT, CHI, <<"P", "U", "N", "E">>}
RequestExportTypes == ExportTypes \cup {"other"}

\* POST /api/export-to-excel
ExportToExcel ==
    /\ pc = 4
    /\ \E selected_division \in RequestDivisions, export_type \in RequestExportTypes :
          response' \in export_to_excel(program, WARRANTY_DATA, selected_division, export_type)
    /\ UNCHANGED <<authVars, program, ledgerFile, pendingFile, compFile, prFile, WARRANTY_DATA, pc>>

(***************************************************************************)
(* Login and sessions                                                      *)
(***************************************************************************)
\* the session lifetime of verify_session, in hours (8 * 3600 seconds)
SessionHours == 8

\* the latest hour of the clock, the hours between two looks at it, and the number of
\* session ids
MaxNow == 12
TickHours == 4
MaxSessions == 2

\* the values secrets.token_hex(16) is taken to give, each at most once
SessionIds == 1..MaxSessions

\* the session id of a cookie the server never set
ForgedId == 0

\* the users of 'UserID.xlsx' and the passwords stored for them
sUser == <<"1", "0", "1">>
sPassword == <<"p", "w">>
sUser2 == <<"1", "0", "2">>
sPassword2 == <<"x">>

\* load_user_credentials()
Credentials == [user_id \in {sUser, sUser2} |-> IF user_id = sUser THEN sPassword ELSE sPassword2]

\* the shortest new password change_password accepts
MinPasswordLength == 6

\* new passwords of five and of six characters
sShort == <<"s", "e", "c", "r", "e">>
sSecret == <<"s", "e", "c", "r", "e", "t">>

\* the texts CaptchaGenerator.generate_captcha() draws from
CaptchaTexts == {<<"A", "7">>}

AuthInit ==
    /\ USER_CREDENTIALS = Credentials
    /\ SESSIONS = <<>>
    /\ now = 0
    /\ captcha_issued = {}
    /\ tokens = {}

\* GET /api/captcha: the text goes to the client with the image; nothing is stored
GetCaptcha ==
    /\ pc = 4
    /\ \E captcha_text \in CaptchaTexts :
          /\ response' = [status |-> 200, kind |-> "captcha", captcha |-> captcha_text]
          /\ captcha_issued' = captcha_issued \cup {captcha_text}
    /\ UNCHANGED <<dataVars, USER_CREDENTIALS, SESSIONS, now, tokens>>

\* create_session(user_id) at the hour t, under a new value of secrets.token_hex(16)
create_session(sessions, session_id, user_id, t) ==
    (session_id :> [user_id |-> user_id, created_at |-> t, last_activity |-> t]) @@ sessions

\* the bodies of the login requests: user id (a text, or a JSON number), password, and
\* the CAPTCHA answer the page sends along
LoginRequests ==
    [user_id : {Str(sUser), Str(<<" ">> \o sUser \o <<" ">>), Str(<<>>), Str(<<"9">>), Num(101)},
     password : {sPassword, sPassword2, sSecret},
     captcha : {Str(<<"K", "3">>)} \cup {Str(c) : c \in CaptchaTexts}]

\* the reply of api_login to a request; `request` records the body it answers
LoginReply(request, status, session_id) ==
    [status |-> status, kind |-> "login", request |-> request, session_id |-> session_id]

\* a login that does not compare the password
ApiLoginOfAnyPassword ==
    /\ pc = 4
    /\ \E request \in LoginRequests :
          LET user_id == IF IsStr(request.user_id) THEN strip(request.user_id.s) ELSE <<>>
          IN IF ~IsStr(request.user_id)
             THEN /\ response' = LoginReply(request, 400, 0)
                  /\ UNCHANGED <<SESSIONS, tokens>>
             ELSE IF user_id = <<>> \/ user_id \notin DOMAIN USER_CREDENTIALS
             THEN /\ response' = LoginReply(request, 401, 0)
                  /\ UNCHANGED <<SESSIONS, tokens>>
             ELSE \E session_id \in SessionIds \ tokens :
                     /\ tokens' = tokens \cup {session_id}
                     /\ SESSIONS' = create_session(SESSIONS, session_id, user_id, now)
                     /\ response' = LoginReply(request, 200, session_id)
    /\ UNCHANGED <<dataVars, USER_CREDENTIALS, now, captcha_issued>>

\* POST /api/login
ApiLogin ==
    /\ pc = 4
    /\ \E request \in LoginRequests :
          LET user_id == IF IsStr(request.user_id) THEN strip(request.user_id.s) ELSE <<>>
          IN \* a JSON number has no .strip(): the AttributeError becomes a 400
             IF ~IsStr(request.user_id)
             THEN /\ response' = LoginReply(request, 400, 0)
                  /\ UNCHANGED <<SESSIONS, tokens>>
             ELSE IF user_id = <<>> \/ user_id \notin DOMAIN USER_CREDENTIALS
             THEN /\ response' = LoginReply(request, 401, 0)
                  /\ UNCHANGED <<SESSIONS, tokens>>
             ELSE IF USER_CREDENTIALS[user_id] # request.password
             THEN /\ response' = LoginReply(request, 401, 0)
                  /\ UNCHANGED <<SESSIONS, tokens>>
             ELSE \E session_id \in SessionIds \ tokens :
                     /\ tokens' = tokens \cup {session_id}
                     /\ SESSIONS' = create_session(SESSIONS, session_id, user_id, now)
                     /\ response' = LoginReply(request, 200, session_id)
    /\ UNCHANGED <<dataVars, USER_CREDENTIALS, now, captcha_issued>>

\* a check that turns an idle session away and keeps it in SESSIONS
verify_sessionKeepingIdle(sessions, session_id, t) ==
    IF session_id \notin DOMAIN sessions
    THEN [user_id |-> None, SESSIONS |-> sessions]
    ELSE IF t - sessions[session_id].last_activity > SessionHours
    THEN [user_id |-> None, SESSIONS |-> sessions]
    ELSE [user_id |-> Str(sessions[session_id].user_id),
          SESSIONS |-> [sessions EXCEPT ![session_id].last_activity = t]]

\* verify_session(session_id) at the hour t: the user id returned (None for none) and
\* SESSIONS after the call
verify_session(sessions, session_id, t) ==
    IF session_id \notin DOMAIN sessions
    THEN [user_id |-> None, SESSIONS |-> sessions]
    ELSE IF t - sessions[session_id].last_activity > SessionHours
    THEN [user_id |-> None,
          SESSIONS |-> [s \in DOMAIN sessions \ {session_id} |-> sessions[s]]]
    ELSE [user_id |-> Str(sessions[session_id].user_id),
          SESSIONS |-> [sessions EXCEPT ![session_id].last_activity = t]]

\* a call of verify_session; the cookie carries an id the server handed out, or a
\* forged one (the 32 hex digits of a coming session are not guessed)
VerifySession ==
    /\ pc = 4
    /\ \E session_id \in tokens \cup {ForgedId} :
          LET verified == verify_session(SESSIONS, session_id, now)
          IN /\ SESSIONS' = verified.SESSIONS
             /\ response' = [status |-> 200, kind |-> "verify", session_id |-> session_id,
                             user_id |-> verified.user_id]
    /\ UNCHANGED <<dataVars, USER_CREDENTIALS, now, captcha_issued, tokens>>

\* the cookies of a request to /api/change-password: none, or a session id
Cookies ==
    {[present |-> FALSE, session_id |-> ForgedId]}
        \cup {[present |-> TRUE, session_id |-> s] : s \in tokens \cup {ForgedId}}

\* the bodies of the requests to /api/change-password; a field that is absent reads ''
ChangeRequests ==
    {[current_password |-> Str(<<>>), new_password |-> Str(sSecret)],
     [current_password |-> Str(sPassword), new_password |-> Str(<<>>)],
     [current_password |-> Str(sPassword2), new_password |-> Str(sSecret)],
     [current_password |-> Str(sPassword), new_password |-> Num(123456)],
     [current_password |-> Str(sPassword), new_password |-> Str(sShort)],
     [current_password |-> Str(sPassword), new_password |-> Str(sSecret)]}

\* a change that stores the new password whether or not the spreadsheet was written
change_passwordUnwritten(credentials, user_id, body, written) ==
    IF body.current_password.s = <<>> \/ body.new_password = Str(<<>>)
    THEN [status |-> 400, written |-> FALSE, USER_CREDENTIALS |-> credentials]
    ELSE IF user_id = None \/ user_id.s \notin DOMAIN credentials
            \/ body.current_password.s # credentials[user_id.s]
    THEN [status |-> 401, written |-> FALSE, USER_CREDENTIALS |-> credentials]
    ELSE IF ~IsStr(body.new_password)
    THEN [status |-> 500, written |-> FALSE, USER_CREDENTIALS |-> credentials]
    ELSE IF Len(body.new_password.s) < MinPasswordLength
    THEN [status |-> 400, written |-> FALSE, USER_CREDENTIALS |-> credentials]
    ELSE [status |-> 200, written |-> written,
          USER_CREDENTIALS |-> [credentials EXCEPT ![user_id.s] = body.new_password.s]]

\* change_password past the session check, for the user id verify_session returned:
\* the status of the reply, whether update_user_password_in_excel wrote the
\* spreadsheet, and USER_CREDENTIALS after the call.  `written` is the outcome of
\* update_user_password_in_excel, were it called.
change_password(credentials, user_id, body, written) ==
    IF body.current_password.s = <<>> \/ body.new_password = Str(<<>>)
    THEN [status |-> 400, written |-> FALSE, USER_CREDENTIALS |-> credentials]
    ELSE IF user_id = None \/ user_id.s \notin DOMAIN credentials
            \/ body.current_password.s # credentials[user_id.s]
    THEN [status |-> 401, written |-> FALSE, USER_CREDENTIALS |-> credentials]
    \* len() of a JSON number raises TypeError, which becomes a 500
    ELSE IF ~IsStr(body.new_password)
    THEN [status |-> 500, written |-> FALSE, USER_CREDENTIALS |-> credentials]
    ELSE IF Len(body.new_password.s) < MinPasswordLength
    THEN [status |-> 400, written |-> FALSE, USER_CREDENTIALS |-> credentials]
    ELSE IF ~written
    THEN [status |-> 500, written |-> FALSE, USER_CREDENTIALS |-> credentials]
    ELSE [status |-> 200, written |-> TRUE,
          USER_CREDENTIALS |-> [credentials EXCEPT ![user_id.s] = body.new_password.s]]

\* the reply of change_password; it records the cookie and the body it answers
ChangeReply(cookie, body, status, written) ==
    [status |-> status, kind |-> "change", cookie |-> cookie, request |-> body,
     written |-> written]

\* POST /api/change-password (main.py only)
ChangePassword ==
    /\ pc = 4
    /\ program = "main"
    /\ \E cookie \in Cookies, body \in ChangeRequests, written \in BOOLEAN :
          LET verified == verify_session(SESSIONS, cookie.session_id, now)
              again == verify_session(verified.SESSIONS, cookie.session_id, now)
              changed == change_password(USER_CREDENTIALS, again.user_id, body, written)
          IN IF ~cookie.present
             THEN /\ response' = ChangeReply(cookie, body, 401, FALSE)
                  /\ UNCHANGED <<SESSIONS, USER_CREDENTIALS>>
             ELSE IF verified.user_id = None
             THEN /\ response' = ChangeReply(cookie, body, 401, FALSE)
                  /\ SESSIONS' = verified.SESSIONS
                  /\ UNCHANGED USER_CREDENTIALS
             ELSE /\ response' = ChangeReply(cookie, body, changed.status, changed.written)
                  /\ SESSIONS' = again.SESSIONS
                  /\ USER_CREDENTIALS' = changed.USER_CREDENTIALS
    /\ UNCHANGED <<dataVars, now, captcha_issued, tokens>>

\* time passes
Tick ==
    /\ now + TickHours <= MaxNow
    /\ now' = now + TickHours
    /\ UNCHANGED <<dataVars, response, USER_CREDENTIALS, SESSIONS, captcha_issued, tokens>>

(***************************************************************************)
(* Source files of the checked runs                                        *)
(***************************************************************************)
Missing == [state |-> "missing"]
Unreadable == [state |-> "unreadable"]
Sheet(cols, rows) == [state |-> "ok", cols |-> cols, rows |-> rows]

\* the sequences over S of length at most n
SeqsUpTo(S, n) == UNION {[1..k -> S] : k \in 0..n}

PUNE == <<"P", "U", "N", "E">>
sApril25 == <<"A", "p", "r", "-", "2", "5">>
sMay25 == <<" ", "M", "a", "y", "-", "2", "5">>
sJan26 == <<"J", "a", "n", "-", "2", "6">>
sLowerApr == <<"a", "p", "r", "i", "l">>
sArb7 == <<" ", "a", "r", "b", "7">>
sARB1023 == <<"A", "R", "B", "1", "0", "2", "3">>
sHyphen == <<"-">>
sXARB == <<"X", "A", "R", "B">>

LedgerRow(loc, fm, arb, credit, debit) ==
    [Dealer_Location |-> loc, Fiscal_Month |-> fm, Claim_arbitration_ID |-> arb,
     Credit_Note_Amount |-> credit, Debit_Note_Amount |-> debit]

\* ledger rows that are combined freely: a mapped and an unmapped location, two months
\* of the table and one outside it, with and without an arbitration id, a positive and
\* a negative debit; and rows whose location cell is missing
LedgerRows ==
    {LedgerRow(Str(loc), Str(fm), Str(arb), Num(amt[1]), Num(amt[2])) :
        loc \in {AMRAVATI, PUNE},
        fm \in {sApril25, sMay25, sJan26},
        arb \in {sArb7, sHyphen},
        amt \in {<<100, 200>>, <<50, -30>>}}
    \cup {LedgerRow(NaN, Str(sApril25), Str(sHyphen), Num(amt[1]), Num(amt[2])) :
        amt \in {<<100, 200>>, <<50, -30>>}}

\* rows that make a sheet of their own: the other shapes of an id, a month and an
\* amount cell, and one row for each key of dealer_mapping and two other locations
SingleLedgerRows ==
    {LedgerRow(Str(AMRAVATI), Str(sApril25), arb, Num(100), Num(200)) :
        arb \in {NaN, Str(sNan), Str(<<>>), Str(sARB1023), Str(sXARB)}}
    \cup {LedgerRow(Str(AMRAVATI), fm, Str(sARB1023), Num(100), Num(200)) :
        fm \in {NaN, Str(sLowerApr)}}
    \cup {LedgerRow(Str(AMRAVATI), Str(sApril25), Str(sARB1023), Str(<<"x">>), NaN)}
    \cup {LedgerRow(Str(loc), Str(sApril25), Str(sHyphen), Num(100), Num(200)) :
        loc \in Range(dealer_mapping_keys) \cup {<<"a", "m", "r", "a", "v", "a", "t", "i">>}}

Row3(a, va, b, vb, c, vc) == (a :> va) @@ (b :> vb) @@ (c :> vc)

PendingRowSamples ==
    {Row3("Division", d, "Pending Claims Spares", s, "Pending Claims Labour", l) :
        d \in {Str(CHI), Str(<<" ", "A", "M", "T", " ">>), NaN},
        s \in {NaN, Num(0), Str(<<"x">>)},
        l \in {NaN, Num(7)}}

SinglePendingRows ==
    {Row3("Division", d, "Pending Claims Spares", Num(1), "Pending Claims Labour", Num(7)) :
        d \in {Str(<<" ">>), Str(<<>>), Str(sNan)}}

CompensationRow(d, ro, amt, app, days) ==
    [c \in {"Division", "RO Id.", "Claim Amount", "Claim Approved Amt.", "No. of Days"} |->
        IF c = "Division" THEN d
        ELSE IF c = "RO Id." THEN ro
        ELSE IF c = "Claim Amount" THEN amt
        ELSE IF c = "Claim Approved Amt." THEN app
        ELSE days]

CompensationRowSamples ==
    {CompensationRow(d, Num(12), amt, Num(40), days) :
        d \in {Str(CHI), Str(<<"A", "M", "T", " ">>), NaN},
        amt \in {Num(100), Str(<<"x">>)},
        days \in {Num(3), Num(4)}}

PrRow(d, ty, cost, req, app) ==
    [c \in {"Division", "Request Type", "Total Cost of Repair", "Req. Claim Amt from M&M",
            "App. Claim Amt from M&M"} |->
        IF c = "Division" THEN d
        ELSE IF c = "Request Type" THEN ty
        ELSE IF c = "Total Cost of Repair" THEN cost
        ELSE IF c = "Req. Claim Amt from M&M" THEN req
        ELSE app]

PrRowSamples ==
    {PrRow(d, ty, Num(5), Num(7), app) :
        d \in {Str(CHI), Str(AMT), NaN},
        ty \in {Str(<<"G", "W">>), Str(<<"P", "A">>), NaN},
        app \in {Num(10), NaN}}

\* a sheet without the columns of `drop`
Without(rows, drop) == [i \in 1..Len(rows) |-> [c \in (DOMAIN rows[i]) \ drop |-> rows[i][c]]]

SheetsOf(samples, drops) ==
    {Sheet((DOMAIN CHOOSE r \in samples : TRUE) \ drop, Without(rows, drop)) :
        rows \in SeqsUpTo(samples, MaxRows), drop \in drops}

LedgerFiles ==
    {Sheet(LedgerColumns, rows) : rows \in SeqsUpTo(LedgerRows, MaxRows)}
    \cup {Sheet(LedgerColumns, <<r>>) : r \in SingleLedgerRows}
PendingFiles ==
    SheetsOf(PendingRowSamples, {{}})
    \cup {Sheet(PendingRequired, <<r>>) : r \in SinglePendingRows}
CompensationFiles == SheetsOf(CompensationRowSamples, {{}, {"No. of Days"}, {"Division"}})

\* the 'RO Id.' cells of the checked runs: a missing cell, numbers, and the texts of at
\* most MaxIdLen characters over letters of the prefix, a blank and a digit, and texts
\* that parse to infinity
MaxIdLen == 3
RoIds ==
    {NaN, Num(0), Num(12)}
    \cup {Str(s) : s \in SeqsUpTo({"R", "O", " ", "1"}, MaxIdLen)}
    \cup {Str(sInf), Str(<<" ">> \o sInf), Str(sRO \o sInf)}
RoIdFiles ==
    {Sheet({"Division", "RO Id."},
           <<[c \in {"Division", "RO Id."} |-> IF c = "Division" THEN Str(CHI) ELSE x]>>) :
        x \in RoIds}
PrFiles == SheetsOf(PrRowSamples, {{}, {"Request Type"}, {"Division"}})

EmptyCache == [k \in Keys |-> None]

InitWith(ledgers, pendings, comps, prs) ==
    /\ program \in {"app", "main"}
    /\ ledgerFile \in ledgers
    /\ pendingFile \in pendings
    /\ compFile \in comps
    /\ prFile \in prs
    /\ WARRANTY_DATA = EmptyCache
    /\ pc = 0
    /\ response = None
    /\ AuthInit

(***************************************************************************)
(* SpecAgg: the startup pass over one varied sheet, the others absent      *)
(***************************************************************************)
\* a file that cannot be parsed, a sheet with none of the columns a routine asks for,
\* and the sheets that lack one column of `required`
Faulty(required, rows) ==
    {Unreadable, Sheet({"Remarks"}, <<>>)} \cup {Sheet(required \ {c}, rows) : c \in required}

InitAgg ==
    \/ InitWith(LedgerFiles
                   \cup Faulty(LedgerColumns,
                               <<LedgerRow(Str(AMRAVATI), Str(sApril25), Str(sHyphen),
                                           Num(100), Num(200))>>),
                {Missing}, {Missing}, {Missing})
    \/ InitWith({Missing},
                PendingFiles
                   \cup Faulty(PendingRequired,
                               <<Row3("Division", Str(CHI), "Pending Claims Spares", Num(1),
                                      "Pending Claims Labour", Num(7))>>),
                {Missing}, {Missing})
    \/ InitWith({Missing}, {Missing}, CompensationFiles \cup RoIdFiles \cup Faulty({}, <<>>),
                {Missing})
    \/ InitWith({Missing}, {Missing}, {Missing}, PrFiles \cup Faulty({}, <<>>))

NextAgg == Startup1 \/ Startup2 \/ Startup3 \/ Startup4

SpecAgg == InitAgg /\ [][NextAgg]_vars

(***************************************************************************)
(* Spec: startup and requests, over a few sheets of each kind              *)
(***************************************************************************)
Ledger1 ==
    Sheet(LedgerColumns,
          <<LedgerRow(Str(AMRAVATI), Str(sApril25), Str(sArb7), Num(100), Num(200)),
            LedgerRow(Str(CHIKHALI), Str(sMay25), Str(sHyphen), Num(50), Num(-30))>>)

\* a ledger of one location: a debit under an id that is neither blank nor an ARB id,
\* and an arbitrated debit of a month outside the table
Ledger2 ==
    Sheet(LedgerColumns,
          <<LedgerRow(Str(AMRAVATI), Str(sApril25), Str(sXARB), Num(0), Num(200)),
            LedgerRow(Str(AMRAVATI), Str(sJan26), Str(sARB1023), Num(0), Num(70))>>)

Pending1 ==
    Sheet(PendingRequired,
          <<Row3("Division", Str(CHI), "Pending Claims Spares", Num(0), "Pending Claims Labour", NaN),
            Row3("Division", Str(AMT), "Pending Claims Spares", Num(3), "Pending Claims Labour", Num(7))>>)

Compensation1 ==
    Sheet({"Division", "RO Id.", "Claim Amount", "Claim Approved Amt.", "No. of Days"},
          <<CompensationRow(Str(CHI), Num(12), Num(100), Num(40), Num(3)),
            CompensationRow(Str(AMT), Str(<<"R", "O", "5">>), Num(60), Num(0), Num(4))>>)

\* Compensation1 with a bill date for each claim: a date, and a text that is no date
CompensationBilled ==
    Sheet(Compensation1.cols \cup {"RO Bill Date"},
          [i \in 1..2 |->
              [c \in Compensation1.cols \cup {"RO Bill Date"} |->
                  IF c = "RO Bill Date" THEN <<Num(5), Str(<<"x">>)>>[i]
                  ELSE Compensation1.rows[i][c]]])

Pr1 ==
    Sheet({"Division", "Request Type", "Total Cost of Repair", "Req. Claim Amt from M&M",
           "App. Claim Amt from M&M"},
          <<PrRow(Str(CHI), Str(<<"G", "W">>), Num(5), Num(7), Num(10)),
            PrRow(Str(AMT), Str(<<"P", "A">>), Num(9), Num(8), NaN)>>)

\* a claim whose id parses to infinity, on a sheet with two of the listed columns
CompensationInf ==
    Sheet({"Division", "RO Id."},
          <<[c \in {"Division", "RO Id."} |-> IF c = "Division" THEN Str(CHI) ELSE Str(sInf)]>>)

\* the sheet without the column c
Lacking(file, c) == Sheet(file.cols \ {c}, Without(file.rows, {c}))

Init ==
    InitWith({Missing, Unreadable, Sheet(LedgerColumns \ {"Claim arbitration ID"}, Ledger1.rows), Ledger1,
              Ledger2},
             {Missing, Pending1},
             {Missing, Sheet({"Remarks"}, <<>>), Sheet({"RO Id."}, <<"RO Id." :> Num(12)>>),
              Compensation1, CompensationBilled, Lacking(Compensation1, "No. of Days"),
              CompensationInf},
             {Missing, Pr1, Lacking(Pr1, "Division"), Lacking(Pr1, "App. Claim Amt from M&M")})

Next ==
    \/ Startup1
    \/ Startup2
    \/ Startup3
    \/ Startup4
    \/ GetWarrantyData
    \/ ExportToExcel

Spec == Init /\ [][Next]_vars

(***************************************************************************)
(* SpecAuth: login and sessions of a server whose data files are absent    *)
(***************************************************************************)
InitAuth ==
    /\ program \in {"app", "main"}
    /\ ledgerFile = Missing
    /\ pendingFile = Missing
    /\ compFile = Missing
    /\ prFile = Missing
    /\ WARRANTY_DATA = EmptyCache
    /\ pc = 4
    /\ response = None
    /\ AuthInit

NextAuth == GetCaptcha \/ ApiLogin \/ VerifySession \/ ChangePassword \/ Tick

SpecAuth == InitAuth /\ [][NextAuth]_vars

(***************************************************************************)
(* Properties of the summary tables                                        *)
(***************************************************************************)
SummaryKeys ==
    {"credit_df", "debit_df", "arbitration_df",
     "current_month_df", "compensation_df", "pr_approval_df"}

\* the rows of a summary table above its last row
DivisionRows(df) == SubSeq(df.rows, 1, Len(df.rows) - 1)

LastRow(df) == df.rows[Len(df.rows)]

\* a summary table that was produced and has rows
Produced(k) == WARRANTY_DATA[k] # None /\ ~empty(WARRANTY_DATA[k])

\* the sum of the numbers of a column over a sequence of summary rows
NumbersSum(rows, c) == SeqSum([i \in 1..Len(rows) |-> rows[i][c].n])

\* C1: in app.py, the last row of each of the six summary tables is labelled
\* 'Grand Total', and in every other column it holds the sum of that column over all
\* the rows above it, every cell of such a column being a number.
C1_GrandTotalIsColumnSum ==
    program = "app" =>
        \A k \in SummaryKeys :
            Produced(k) =>
                LET df == WARRANTY_DATA[k]
                IN /\ LastRow(df)[DivisionCol] = GrandTotal
                   /\ \A c \in Range(df.cols) \ {DivisionCol} :
                         /\ \A i \in 1..Len(df.rows) : IsNum(df.rows[i][c])
                         /\ LastRow(df)[c].n = NumbersSum(DivisionRows(df), c)

\* app.py produced a table of two divisions whose grand total differs, in some column,
\* from both rows above it
C1_Witness ==
    /\ program = "app"
    /\ \E k \in SummaryKeys :
          /\ Produced(k)
          /\ Len(WARRANTY_DATA[k].rows) = 3
          /\ \E c \in Range(WARRANTY_DATA[k].cols) \ {DivisionCol} :
                /\ WARRANTY_DATA[k].rows[1][c].n > 0
                /\ WARRANTY_DATA[k].rows[2][c].n > 0
                /\ LastRow(WARRANTY_DATA[k])[c].n
                     = WARRANTY_DATA[k].rows[1][c].n + WARRANTY_DATA[k].rows[2][c].n

\* the row of a summary table for a division
RowOf(df, d) == CHOOSE r \in Range(df.rows) : r[DivisionCol] = d

\* the sum of the nine 'Claim Arbitration <Mon>' cells of an arbitration row
Claimed(r) == SeqSum([k \in 1..Len(months) |-> r[MonthCol("Claim Arbitration", months[k])].n])

\* what is left of a division's total debit once its arbitrated debit is taken off
Unclaimed(r) == RowOf(WARRANTY_DATA["debit_df"], r[DivisionCol])[<<"Total Debit">>].n - Claimed(r)

\* C2: in app.py, every division row of the arbitration table has
\* Pending Claim Arbitration = max(0, Total Debit of that division in the debit table
\* minus the sum of its nine Claim Arbitration columns), so it is never negative.
C2_PendingIsClippedRemainder ==
    (program = "app" /\ Produced("arbitration_df")) =>
        \A r \in Range(DivisionRows(WARRANTY_DATA["arbitration_df"])) :
            /\ r[<<"Pending Claim Arbitration">>].n = Max(0, Unclaimed(r))
            /\ r[<<"Pending Claim Arbitration">>].n >= 0

\* app.py produced an arbitration row whose arbitrated debit exceeds its total debit,
\* and its pending amount is 0
C2_Witness ==
    /\ program = "app"
    /\ Produced("arbitration_df")
    /\ \E r \in Range(DivisionRows(WARRANTY_DATA["arbitration_df"])) :
          /\ Unclaimed(r) < 0
          /\ r[<<"Pending Claim Arbitration">>].n = 0

\* C3: in main.py, Pending Claim Arbitration of every division row of the arbitration
\* table is never negative: a remainder below 0 is shown as 0.
C3_PendingNeverNegativeInMain ==
    (program = "main" /\ Produced("arbitration_df")) =>
        \A r \in Range(DivisionRows(WARRANTY_DATA["arbitration_df"])) :
            /\ r[<<"Pending Claim Arbitration">>].n >= 0
            /\ r[<<"Pending Claim Arbitration">>].n = Max(0, Unclaimed(r))

(***************************************************************************)
(* Properties of the replies and of the ledger processing                  *)
(***************************************************************************)
\* the reply of GET /api/warranty-data is in `response`
JsonReply == response # None /\ response.kind = "json"

\* C4: one source file that is missing or malformed does not keep the tables of the
\* other files from being served: GET /api/warranty-data returns the current-month,
\* compensation and PR-approval tables that startup produced, also when the ledger
\* could not be loaded.
C4_OtherTablesServedWithoutLedger ==
    JsonReply =>
        /\ response.body.currentMonth = Records(WARRANTY_DATA["current_month_df"])
        /\ response.body.compensation = Records(WARRANTY_DATA["compensation_df"])
        /\ response.body.prApproval = Records(WARRANTY_DATA["pr_approval_df"])

\* the ledger sheet was read with every column process_warranty_data asks for
LedgerRead == ledgerFile.state = "ok" /\ LedgerRequired(program) \subseteq ledgerFile.cols

\* C5: dealer-code normalization is total: once process_warranty_data has run on a
\* ledger it could read, the Dealer_Code of every row is a text, also for a row whose
\* 'Dealer Location' is missing, and the three ledger tables were produced whatever
\* the locations are (a failure can only come from a month without rows).
C5_DealerCodeIsTotal ==
    (pc >= 1 /\ LedgerRead) =>
        /\ WARRANTY_DATA["source_df"] # None =>
              \A i \in 1..Len(WARRANTY_DATA["source_df"].rows) :
                  IsStr(WARRANTY_DATA["source_df"].rows[i].Dealer_Code)
        /\ WARRANTY_DATA["credit_df"] = None => SomeMonthEmpty(CleanLedger(ledgerFile.rows))
        /\ \A i \in 1..Len(ledgerFile.rows) : IsStr(Dealer_Code(ledgerFile.rows[i].Dealer_Location))

\* the short code the specification documents for a raw location name
DocumentedCode(loc) ==
    CASE loc = AMRAVATI -> AMT
      [] loc = CHAUFULA_SZZ -> CHA
      [] loc = CHIKHALI -> CHI
      [] loc = KOLHAPUR_WS -> KOL
      [] loc = NAGPUR_KAMPTHEE_ROAD -> HO
      [] loc = NAGPUR_WARDHAMAN_NGR -> CITY
      [] loc = SHIKRAPUR_SZS -> SHI
      [] loc = WAGHOLI -> WAG
      [] loc = YAVATMAL -> YAT
      [] loc = NAGPUR_WARDHAMAN_NGR_CQ -> CQ
      [] OTHER -> loc

LedgerTables == {"credit_df", "debit_df", "arbitration_df"}

\* C6: the Dealer_Code of a ledger row whose location is one of the ten known names is
\* the documented short code, that of a row with any other text is the text itself, and
\* each of the three ledger tables has a row keyed by that code (so an unmapped dealer
\* is keyed by its raw name).
C6_DealerCodeMapping ==
    WARRANTY_DATA["source_df"] # None =>
        \A i \in 1..Len(ledgerFile.rows) :
            IsStr(ledgerFile.rows[i].Dealer_Location) =>
                LET code == Str(DocumentedCode(ledgerFile.rows[i].Dealer_Location.s))
                IN /\ WARRANTY_DATA["source_df"].rows[i].Dealer_Code = code
                   /\ \A k \in LedgerTables :
                         \E r \in Range(DivisionRows(WARRANTY_DATA[k])) : r[DivisionCol] = code

\* a ledger with a known and an unknown location was processed: the credit table has a
\* row keyed 'AMT' and a row keyed by the raw name 'PUNE'
C6_Witness ==
    /\ WARRANTY_DATA["source_df"] # None
    /\ \E i, j \in 1..Len(ledgerFile.rows) :
          /\ ledgerFile.rows[i].Dealer_Location = Str(AMRAVATI)
          /\ ledgerFile.rows[j].Dealer_Location = Str(PUNE)
    /\ Len(WARRANTY_DATA["credit_df"].rows) = 3
    /\ WARRANTY_DATA["credit_df"].rows[1][DivisionCol] = Str(AMT)
    /\ WARRANTY_DATA["credit_df"].rows[2][DivisionCol] = Str(PUNE)

\* the sum of an amount over the cleaned ledger rows of a division code and a month key
LedgerSum(d, m, amount) ==
    LET src == WARRANTY_DATA["source_df"].rows
    IN SeqSum([i \in 1..Len(src) |->
                  IF src[i].Dealer_Code = d /\ src[i].Month = m THEN src[i][amount] ELSE 0])

\* the month columns and the total column of one of the two note tables
NoteTableIsLedgerSum(k, prefix, total, amount) ==
    LET df == WARRANTY_DATA[k]
        src == WARRANTY_DATA["source_df"].rows
    IN /\ \A i \in 1..Len(src) :
             IsStr(src[i].Dealer_Code) =>
                 \E r \in Range(DivisionRows(df)) : r[DivisionCol] = src[i].Dealer_Code
       /\ \A r \in Range(DivisionRows(df)) :
             /\ \A j \in 1..Len(months) :
                   /\ MonthCol(prefix, months[j]) \in DOMAIN r
                   /\ r[MonthCol(prefix, months[j])] = Num(LedgerSum(r[DivisionCol], months[j], amount))
             /\ r[<<total>>] = Num(SeqSum([j \in 1..Len(months) |-> r[MonthCol(prefix, months[j])].n]))

\* C7: in the credit (debit) table every division of the ledger has a row; for every
\* month of Apr..Dec its 'Credit Note <month>' ('Debit Note <month>') cell is the sum of
\* the Credit (Debit) Note Amount of the ledger rows with that division code and that
\* 3-letter month key, 0 when there is none; 'Total Credit' ('Total Debit') is the
\* row-wise sum of the nine month cells.
C7_NoteColumnsAreLedgerSums ==
    (Produced("credit_df") /\ Produced("debit_df")) =>
        /\ NoteTableIsLedgerSum("credit_df", "Credit Note", "Total Credit", "Credit_Note_Amount")
        /\ NoteTableIsLedgerSum("debit_df", "Debit Note", "Total Debit", "Debit_Note_Amount")

\* credit notes of 100 in Apr and 50 in May for AMT: the row shows 100, 50, 0 for Jun
\* and a total of 150, and so does the grand total
C7_Witness ==
    /\ Produced("credit_df")
    /\ Len(WARRANTY_DATA["credit_df"].rows) = 2
    /\ LET r == WARRANTY_DATA["credit_df"].rows[1]
       IN /\ r[DivisionCol] = Str(AMT)
          /\ r[MonthCol("Credit Note", Apr)] = Num(100)
          /\ r[MonthCol("Credit Note", May)] = Num(50)
          /\ r[MonthCol("Credit Note", Jun)] = Num(0)
          /\ r[<<"Total Credit">>] = Num(150)
    /\ LastRow(WARRANTY_DATA["credit_df"])[<<"Total Credit">>] = Num(150)

\* an arbitration id as the specification describes it: a text that, trimmed and
\* uppercased, starts with 'ARB'
DocumentedArbitration(cell) == IsStr(cell) /\ startswith(upper(strip(cell.s)), sARB)

\* the debit of the sheet's rows of a division code and a month key that carry such an id
ArbitratedDebit(d, m) ==
    SeqSum([i \in 1..Len(ledgerFile.rows) |->
              LET row == ledgerFile.rows[i]
              IN IF /\ Dealer_Code(row.Dealer_Location) = d
                    /\ Month(row.Fiscal_Month) = m
                    /\ DocumentedArbitration(row.Claim_arbitration_ID)
                 THEN to_numeric_fillna0(row.Debit_Note_Amount)
                 ELSE 0])

\* C8: every 'Claim Arbitration <month>' cell of a division row is the sum of the Debit
\* Note Amount of exactly those ledger rows of the division and month whose id, trimmed
\* and uppercased, starts with 'ARB'; rows whose id is '-', '', 'nan' or missing add
\* nothing.
C8_ArbitrationIffArbPrefix ==
    Produced("arbitration_df") =>
        \A r \in Range(DivisionRows(WARRANTY_DATA["arbitration_df"])) :
            \A j \in 1..Len(months) :
                r[MonthCol("Claim Arbitration", months[j])]
                    = Num(ArbitratedDebit(r[DivisionCol], months[j]))

\* two April rows of one division, ids ' arb7' and '-': only the first one's debit is
\* in 'Claim Arbitration Apr'
C8_Witness ==
    /\ Produced("arbitration_df")
    /\ Len(ledgerFile.rows) = 2
    /\ ledgerFile.rows[1].Claim_arbitration_ID = Str(sArb7)
    /\ ledgerFile.rows[2].Claim_arbitration_ID = Str(sHyphen)
    /\ ledgerFile.rows[1].Debit_Note_Amount = Num(200)
    /\ ledgerFile.rows[2].Debit_Note_Amount = Num(-30)
    /\ Len(WARRANTY_DATA["arbitration_df"].rows) = 2
    /\ WARRANTY_DATA["arbitration_df"].rows[1][MonthCol("Claim Arbitration", Apr)] = Num(200)
    /\ WARRANTY_DATA["debit_df"].rows[1][MonthCol("Debit Note", Apr)] = Num(170)

(***************************************************************************)
(* Properties of the current-month table and of the export                 *)
(***************************************************************************)
\* the division of a row of the pending-claims sheet, as text and trimmed
TrimmedDivision(row) == strip(astype_str(row["Division"]))

\* the number of rows of the sheet of a division whose cell in `col` is not missing
PresentCells(d, col) ==
    Cardinality({i \in 1..Len(pendingFile.rows) :
                    TrimmedDivision(pendingFile.rows[i]) = d /\ ~isna(pendingFile.rows[i][col])})

\* C9: in the current-month table every division of the sheet has a row; its 'Pending
\* Claims Spares Count' ('Labour Count') is the number of the division's source rows
\* whose 'Pending Claims Spares' ('Pending Claims Labour') cell is not missing,
\* whatever the cell holds; 'Total Pending Claims' is the sum of the two counts; no
\* row of the table is keyed by an empty or 'nan' division.
C9_CurrentMonthCountsPresentCells ==
    Produced("current_month_df") =>
        /\ \A i \in 1..Len(pendingFile.rows) :
              TrimmedDivision(pendingFile.rows[i]) \notin {<<>>, sNan} =>
                  \E r \in Range(DivisionRows(WARRANTY_DATA["current_month_df"])) :
                      r[DivisionCol] = Str(TrimmedDivision(pendingFile.rows[i]))
        /\ \A r \in Range(DivisionRows(WARRANTY_DATA["current_month_df"])) :
              /\ r[DivisionCol].s \notin {<<>>, sNan}
              /\ r[<<"Pending Claims Spares Count">>]
                    = Num(PresentCells(r[DivisionCol].s, "Pending Claims Spares"))
              /\ r[<<"Pending Claims Labour Count">>]
                    = Num(PresentCells(r[DivisionCol].s, "Pending Claims Labour"))
              /\ r[<<"Total Pending Claims">>].n
                    = r[<<"Pending Claims Spares Count">>].n + r[<<"Pending Claims Labour Count">>].n

\* a sheet of a row with a text in the spares cell and a row without a division: the
\* text is counted, the second row is in no division
C9_Witness ==
    /\ Produced("current_month_df")
    /\ Len(pendingFile.rows) = 2
    /\ pendingFile.rows[1]["Division"] = Str(CHI)
    /\ pendingFile.rows[1]["Pending Claims Spares"] = Str(<<"x">>)
    /\ pendingFile.rows[1]["Pending Claims Labour"] = NaN
    /\ isna(pendingFile.rows[2]["Division"])
    /\ pendingFile.rows[2]["Pending Claims Labour"] = Num(7)
    /\ Len(WARRANTY_DATA["current_month_df"].rows) = 2
    /\ WARRANTY_DATA["current_month_df"].rows[1][<<"Pending Claims Spares Count">>] = Num(1)
    /\ LastRow(WARRANTY_DATA["current_month_df"])[<<"Total Pending Claims">>] = Num(1)

\* the reply in `response` is a workbook
WorkbookReply == response # None /\ response.kind = "workbook"

\* the summary table an export type stands for
ExportedTable(export_type) ==
    CASE export_type = "credit" -> WARRANTY_DATA["credit_df"]
      [] export_type = "debit" -> WARRANTY_DATA["debit_df"]
      [] export_type = "arbitration" -> WARRANTY_DATA["arbitration_df"]
      [] export_type = "currentmonth" -> WARRANTY_DATA["current_month_df"]
      [] export_type = "compensation" -> WARRANTY_DATA["compensation_df"]
      [] export_type = "pr_approval" -> WARRANTY_DATA["pr_approval_df"]

Summand(cell) == IF isna(cell) THEN 0 ELSE cell.n

\* the sum of a column over the rows of a sheet above its last row
SheetSum(sheet, c) == SeqSum([i \in 1..(Len(sheet.rows) - 1) |-> Summand(sheet.rows[i][c])])

\* the Summary sheet of an unfiltered export ends with the 'Grand Total' row
UnfilteredWorkbook ==
    /\ WorkbookReply
    /\ response.division = sAll
    /\ LastRow(response.summary)[DivisionCol] = GrandTotal

\* the columns of the Summary sheet whose grand total is a mean: main.py's average
MeanColumns == IF program = "main" THEN {<<"Avg No. of Days">>} ELSE {}

ExportReply == response # None /\ response.kind \in {"workbook", "error"}

\* the table an export request asks for: app.py serves arbitration_df for every type
\* it does not know, main.py turns such a type down
RequestedTable ==
    IF response.type \in ExportTypes THEN ExportedTable(response.type)
    ELSE WARRANTY_DATA["arbitration_df"]

\* the details of the error replies that report that there is no data
NoDataDetails ==
    {"No data for " \o export_type : export_type \in RequestExportTypes}
    \cup {"No data available for export",
          "Export error: No current month warranty data available",
          "Export error: No compensation claim data available",
          "Export error: No PR Approval data available"}

\* C12: for every export type and division filter, an export of a table that is absent
\* (None) or empty is answered by an error reply that reports that there is no data,
\* never by a workbook.
C12_NoDataIsAnError ==
    (ExportReply /\ (program = "app" \/ response.type \in ExportTypes)) =>
        ((RequestedTable = None \/ Len(RequestedTable.rows) = 0) =>
            /\ response.kind = "error"
            /\ response.status = 500
            /\ response.detail \in NoDataDetails)

\* a division export of the compensation table of a sheet without a Division column,
\* which is an empty frame, was answered by an error
C12_Witness ==
    /\ ExportReply
    /\ response.type = "compensation"
    /\ response.division = CHI
    /\ WARRANTY_DATA["compensation_df"] = EmptyFrame
    /\ response.kind = "error"
    /\ response.detail \in NoDataDetails

(***************************************************************************)
(* Properties of the startup pass                                          *)
(***************************************************************************)
\* the file could not be found or could not be parsed
NotRead(file) == file.state # "ok"

\* the sheet was read and lacks a column of `columns`
LacksOneOf(file, columns) == file.state = "ok" /\ ~(columns \subseteq file.cols)

\* the sheet was read and has no column of `columns`
LacksAllOf(file, columns) == file.state = "ok" /\ columns \cap file.cols = {}

\* the cache entries named are all None
NoneAt(keys) == \A k \in keys : WARRANTY_DATA[k] = None

\* the columns process_warranty_data reads
LedgerColumnsRead ==
    {"Dealer Location", "Fiscal Month", "Claim arbitration ID", "Credit Note Amount",
     "Debit Note Amount"} \cup (IF program = "main" THEN {"Total Claim Amount"} ELSE {})

\* the routine the startup pass calls next returns a tuple, whatever its file holds
NextRoutineReturns ==
    /\ pc = 0 => \E r \in process_warranty_data(program, ledgerFile) : Len(r) = 4
    /\ pc = 1 => Len(process_current_month_warranty(program, pendingFile)) = 2
    /\ pc = 2 => Len(process_compensation_claim(program, compFile)) = 2
    /\ pc = 3 => Len(process_pr_approval(program, prFile)) = 2

\* C13 as stated: no process_* routine raises, so the startup pass goes on to the next
\* routine; and a routine whose file cannot be found, cannot be parsed, or lacks one
\* of its required columns returns a tuple of None values.
C13_LackingAnyColumnGivesNone ==
    /\ NextRoutineReturns
    /\ (pc >= 1 /\ (NotRead(ledgerFile) \/ LacksOneOf(ledgerFile, LedgerColumnsRead)))
          => NoneAt({"credit_df", "debit_df", "arbitration_df", "source_df"})
    /\ (pc >= 2 /\ (NotRead(pendingFile) \/ LacksOneOf(pendingFile, PendingRequired)))
          => NoneAt({"current_month_df", "current_month_source_df"})
    /\ (pc >= 3 /\ (NotRead(compFile)
                    \/ LacksOneOf(compFile, Range(CompensationRequired(program)))))
          => NoneAt({"compensation_df", "compensation_source_df"})
    /\ (pc >= 4 /\ (NotRead(prFile) \/ LacksOneOf(prFile, {"Division"})))
          => NoneAt({"pr_approval_df", "pr_approval_source_df"})

\* C13 amended: no process_* routine raises, so the startup pass goes on to the next
\* routine; and a routine returns a tuple of None values when its file cannot be found
\* or cannot be parsed, when the ledger or the pending-claims sheet lacks a column the
\* routine reads, when the compensation sheet (in main.py the PR sheet too) has none
\* of the routine's listed columns, and when app.py's PR sheet has no Division column.
C13_UnusableSourceGivesNone ==
    /\ NextRoutineReturns
    /\ (pc >= 1 /\ (NotRead(ledgerFile) \/ LacksOneOf(ledgerFile, LedgerColumnsRead)))
          => NoneAt({"credit_df", "debit_df", "arbitration_df", "source_df"})
    /\ (pc >= 2 /\ (NotRead(pendingFile) \/ LacksOneOf(pendingFile, PendingRequired)))
          => NoneAt({"current_month_df", "current_month_source_df"})
    /\ (pc >= 3 /\ (NotRead(compFile)
                    \/ LacksAllOf(compFile, Range(CompensationRequired(program)))))
          => NoneAt({"compensation_df", "compensation_source_df"})
    /\ (pc >= 4 /\ (\/ NotRead(prFile)
                    \/ program = "app" /\ LacksOneOf(prFile, {"Division"})
                    \/ program = "main" /\ LacksAllOf(prFile, Range(PrSummaryColumns))))
          => NoneAt({"pr_approval_df", "pr_approval_source_df"})

\* the startup pass ran to its end over a ledger that lacks a column it reads: the
\* four ledger entries are None
C13_Witness ==
    /\ pc = 4
    /\ LacksOneOf(ledgerFile, LedgerColumnsRead)
    /\ ledgerFile.rows # <<>>
    /\ NoneAt({"credit_df", "debit_df", "arbitration_df", "source_df"})

(***************************************************************************)
(* Properties of the request handlers                                      *)
(***************************************************************************)
\* C14: once the startup pass is over, no step of GET /api/warranty-data or of
\* POST /api/export-to-excel changes an entry of WARRANTY_DATA, summary table or
\* retained source table: every entry stays what it was at the end of startup.
C14_HandlersLeaveCacheAlone == [][pc = 4 => WARRANTY_DATA' = WARRANTY_DATA]_vars

\* main.py answered a GET with a 0 for a count that is missing in the cached PR table,
\* and the cached table is still the one process_pr_approval returned, missing cell
\* included
C14_Witness ==
    /\ JsonReply
    /\ program = "main"
    /\ prFile = Pr1
    /\ WARRANTY_DATA["credit_df"] # None
    /\ WARRANTY_DATA["pr_approval_df"] = process_pr_approval(program, prFile)[1]
    /\ \E i \in 1..Len(WARRANTY_DATA["pr_approval_df"].rows) :
          \E c \in Range(WARRANTY_DATA["pr_approval_df"].cols) :
             /\ isna(WARRANTY_DATA["pr_approval_df"].rows[i][c])
             /\ response.body.prApproval[i][c] = Num(0)

\* the cache entry behind each list of the GET reply
RecordLists ==
    [credit |-> "credit_df", debit |-> "debit_df", arbitration |-> "arbitration_df",
     currentMonth |-> "current_month_df", compensation |-> "compensation_df",
     prApproval |-> "pr_approval_df"]

\* C15: every value of every record of the six lists GET /api/warranty-data returns is
\* a division text or a number: a cell that is missing in the summary table is 0 in the
\* record, every other cell is the cell of the table.
C15_RecordsHoldTextsAndNumbers ==
    JsonReply =>
        \A f \in DOMAIN RecordLists :
            \A i \in 1..Len(response.body[f]) :
                \A c \in DOMAIN response.body[f][i] :
                    LET value == response.body[f][i][c]
                        cell == WARRANTY_DATA[RecordLists[f]].rows[i][c]
                    IN /\ IsStr(value) \/ IsNum(value)
                       /\ IsStr(value) => c = DivisionCol
                       /\ value = IF isna(cell) THEN Num(0) ELSE cell

\* main.py's PR table has no 'PA' request for CHI: the count is missing in the table
\* and 0 in the record of the reply
C15_Witness ==
    /\ JsonReply
    /\ program = "main"
    /\ Len(response.body.prApproval) = 3
    /\ response.body.prApproval[2][DivisionCol] = Str(CHI)
    /\ response.body.prApproval[2][CountCol(<<"P", "A">>)] = Num(0)
    /\ WARRANTY_DATA["pr_approval_df"].rows[2][CountCol(<<"P", "A">>)] = NaN
    /\ response.body.prApproval[1][CountCol(<<"P", "A">>)] = Num(1)

\* C16: in every summary table that has rows, the last row is the 'Grand Total' row and
\* the division rows above it are in ascending order of their division codes, no code
\* twice.
C16_DivisionsAscendingGrandTotalLast ==
    \A k \in SummaryKeys :
        Produced(k) =>
            LET df == WARRANTY_DATA[k]
            IN /\ LastRow(df)[DivisionCol] = GrandTotal
               /\ \A i, j \in 1..(Len(df.rows) - 1) :
                     i < j => /\ IsStr(df.rows[i][DivisionCol])
                              /\ IsStr(df.rows[j][DivisionCol])
                              /\ StrLess(df.rows[i][DivisionCol].s, df.rows[j][DivisionCol].s)

\* a ledger that lists PUNE before AMRAVATI: the credit table has the row of AMT, then
\* the row of PUNE, then the Grand Total
C16_Witness ==
    /\ Produced("credit_df")
    /\ Len(ledgerFile.rows) = 2
    /\ ledgerFile.rows[1].Dealer_Location = Str(PUNE)
    /\ ledgerFile.rows[2].Dealer_Location = Str(AMRAVATI)
    /\ Len(WARRANTY_DATA["credit_df"].rows) = 3
    /\ WARRANTY_DATA["credit_df"].rows[1][DivisionCol] = Str(AMT)
    /\ WARRANTY_DATA["credit_df"].rows[2][DivisionCol] = Str(PUNE)
    /\ WARRANTY_DATA["credit_df"].rows[3][DivisionCol] = GrandTotal

\* the latest day taken for the current date
MaxDate == 10

\* the turn-around time of a claim row on the day `today`: the days since its bill
\* date, 0 for a bill date that is missing or no date, never below 0
TurnAroundTime(row, today) ==
    IF "RO Bill Date" \in DOMAIN row /\ IsNum(row["RO Bill Date"])
    THEN Max(0, today - row["RO Bill Date"].n)
    ELSE 0

\* the claim rows a compensation export with this division filter has to show
ExportedClaims(selected_division) ==
    IF WARRANTY_DATA["compensation_source_df"] = None THEN <<>>
    ELSE DivisionDetail(WARRANTY_DATA["compensation_source_df"], selected_division)

\* C19: a Compensation export that has claim rows to show has a detail sheet, and the
\* sheet holds, next to the columns of the claims, a turn-around-time column whose
\* value in every row is the number of days from the row's RO Bill Date to the current
\* date, 0 when the bill date is missing or unparseable, and never negative.
C19_CompensationDetailHasTat ==
    (WorkbookReply /\ response.type = "compensation"
        /\ ExportedClaims(response.division) # <<>>) =>
        /\ Len(response.details) = 1
        /\ \E tat \in response.details[1].cols \ WARRANTY_DATA["compensation_source_df"].cols :
              \E today \in 0..MaxDate :
                 \A i \in 1..Len(response.details[1].rows) :
                    response.details[1].rows[i][tat]
                       = Num(TurnAroundTime(response.details[1].rows[i], today))

\* C20 as stated: every exported workbook has its Summary sheet and at most two detail
\* sheets, and only the Arbitration, Current-Month, Compensation and PR-Approval
\* exports have detail sheets: a Credit or Debit export is the Summary sheet alone,
\* whatever the division filter.
C20_DetailsOnlyForFourTypes ==
    WorkbookReply =>
        /\ Len(response.details) \in 0..2
        /\ response.type \notin {"arbitration", "currentmonth", "compensation", "pr_approval"}
              => response.details = <<>>

\* C20 amended: every exported workbook has its Summary sheet and at most two detail
\* sheets, for every export type and division filter; a workbook of app.py is the
\* Summary sheet alone; in main.py a Credit or Debit export is the Summary sheet alone
\* for the filters 'All' and 'Grand Total' and has one detail sheet for a specific
\* division.
C20_AtMostTwoDetailSheets ==
    WorkbookReply =>
        /\ Len(response.details) \in 0..2
        /\ program = "app" => response.details = <<>>
        /\ (program = "main" /\ response.type \in {"credit", "debit"}) =>
              Len(response.details)
                 = (IF response.division \in {sAll, sGrandTotal} THEN 0 ELSE 1)

\* main.py exported the credit table for CHI: the workbook has the sheet
\* 'CHI - Detailed Data' with the one credit note of CHIKHALI
C20_Witness ==
    /\ WorkbookReply
    /\ program = "main"
    /\ response.type = "credit"
    /\ response.division = CHI
    /\ Len(response.details) = 1
    /\ response.details[1].title = "Detailed Data"
    /\ Len(response.details[1].rows) = 1
    /\ response.details[1].rows[1]["Dealer Location"] = Str(CHIKHALI)

(***************************************************************************)
(* Properties of login and sessions                                        *)
(***************************************************************************)
\* C17: POST /api/login creates a session only for a request that carries a correct
\* answer to a CAPTCHA that GET /api/captcha issued: a successful login reply answers
\* a request whose CAPTCHA answer is one of the texts handed out.
C17_LoginNeedsIssuedCaptcha ==
    (response # None /\ response.kind = "login" /\ response.status = 200) =>
        /\ response.request.captcha # None
        /\ response.request.captcha.s \in captcha_issued

\* C18: verify_session returns no user id for a session that create_session created
\* more than 8 hours before the call, whatever calls of verify_session came between.
C18_SessionEndsAfterEightHours ==
    [][(/\ response' # None
        /\ response'.kind = "verify"
        /\ now' = now
        /\ response'.user_id # None)
          => now - SESSIONS[response'.session_id].created_at <= SessionHours]_vars

(***************************************************************************)
(* Properties of the record-id normalisation                               *)
(***************************************************************************)
\* the sheet holds one claim with an 'RO Id.' cell of the sample
RoIdRead == compFile \in RoIdFiles

\* the 'RO Id.' cell of the sheet's claim
RoIdCell == compFile.rows[1]["RO Id."]

\* the id is missing or blank
BlankId(x) == isna(x) \/ (IsStr(x) /\ strip(x.s) = <<>>)

\* C21: format_ro_id returns '' for a missing or blank id and otherwise a text that
\* starts with 'RO', with the prefix added only when the id does not start with it
\* already; applied to its own result it returns that result.  Stated of the ids
\* process_compensation_claim retains: once the routine has run over a claim, the
\* retained 'RO Id.' is such a text.
C21_RoIdNormalised ==
    (pc >= 3 /\ RoIdRead) =>
        LET df == WARRANTY_DATA["compensation_source_df"]
        IN /\ df # None
           /\ Len(df.rows) = 1
           /\ LET r == df.rows[1]["RO Id."]
              IN /\ IsStr(r)
                 /\ BlankId(RoIdCell) => r.s = <<>>
                 /\ ~BlankId(RoIdCell) => startswith(r.s, sRO)
                 /\ (IsStr(RoIdCell) /\ startswith(strip(RoIdCell.s), sRO))
                       => r.s = strip(RoIdCell.s)
                 /\ format_ro_id(r) = r.s

\* C21 holds of app.py, whose format_ro_id catches every exception
RoIdNormalisedByApp == program = "app" => C21_RoIdNormalised

(***************************************************************************)
(* Properties of the sheets with schema gaps                               *)
(***************************************************************************)
\* the summary columns computed from the column c of the compensation sheet
CompensationSummaryOf(c) ==
    IF c = "Claim Amount" THEN {<<"Total Claim Amount">>}
    ELSE IF c = "Claim Approved Amt." THEN {<<"Total Approved Amount">>}
    ELSE IF c = "No. of Days" THEN {<<"Avg No. of Days">>}
    ELSE {}

\* the summary columns of `table` computed from the column c of the PR sheet
PrSummaryOf(table, c) ==
    IF c = "App. Claim Amt from M&M" THEN {<<"Total Approved Amount">>}
    ELSE IF program = "app" /\ c \in {"Total Cost of Repair", "Req. Claim Amt from M&M"}
         THEN {<<c>>}
    ELSE IF program = "main" /\ c = "Request Type"
         THEN {l \in Range(table.cols) : Len(l) = 2 /\ l[1] = "Count"}
    ELSE {}

\* the optional columns of the sheets: the listed columns other than Division
CompensationOptional == Range(CompensationRequired(program)) \ {"Division"}
PrOptional ==
    IF program = "app" THEN PrNumeric("app") ELSE Range(PrSummaryColumns) \ {"Division"}

\* the table without the columns `labels`
DropColumns(table, labels) ==
    LET cols == SelectSeq(table.cols, LAMBDA l : l \notin labels)
    IN DataFrame(cols, [i \in 1..Len(table.rows) |-> [l \in Range(cols) |-> table.rows[i][l]]])

\* the sheet lacks its Division column or every listed column
CompensationGap ==
    compFile.state = "ok"
    /\ ("Division" \notin compFile.cols
        \/ compFile.cols \cap Range(CompensationRequired(program)) = {})
PrGap ==
    prFile.state = "ok"
    /\ ("Division" \notin prFile.cols
        \/ (program = "main" /\ prFile.cols \cap Range(PrSummaryColumns) = {}))

\* the table is absent or has no rows
NoResult(table) == table = None \/ Len(table.rows) = 0

\* the list GET /api/warranty-data serves for a cache entry, whatever the other entries
\* of the sheets with gaps hold
Served(key) == IF WARRANTY_DATA["credit_df"] = None THEN <<>> ELSE Records(WARRANTY_DATA[key])

\* C22: the compensation and PR-approval routines tolerate schema gaps.  Taking an
\* optional column away from a sheet that has a Division column and a summary only
\* takes away the summary columns computed from that column.  A sheet without a Division
\* column, or without any listed column, gives no result for its table: GET
\* /api/warranty-data serves an empty list for it and its export reports that there
\* is no data, while the other tables are the ones their own files give.
C22_SchemaGapsTolerated ==
    /\ (pc >= 3 /\ compFile.state = "ok" /\ "Division" \in compFile.cols
          /\ WARRANTY_DATA["compensation_df"] # None) =>
          \A c \in compFile.cols \cap CompensationOptional :
             process_compensation_claim(program, Lacking(compFile, c))[1]
                = DropColumns(WARRANTY_DATA["compensation_df"], CompensationSummaryOf(c))
    /\ (pc >= 4 /\ prFile.state = "ok" /\ "Division" \in prFile.cols
          /\ WARRANTY_DATA["pr_approval_df"] # None) =>
          \A c \in prFile.cols \cap PrOptional :
             process_pr_approval(program, Lacking(prFile, c))[1]
                = DropColumns(WARRANTY_DATA["pr_approval_df"],
                              PrSummaryOf(WARRANTY_DATA["pr_approval_df"], c))
    /\ (pc >= 3 /\ CompensationGap) => NoResult(WARRANTY_DATA["compensation_df"])
    /\ (pc >= 4 /\ PrGap) => NoResult(WARRANTY_DATA["pr_approval_df"])
    /\ (pc >= 4 /\ (CompensationGap \/ PrGap)) =>
          /\ \E r \in process_warranty_data(program, ledgerFile) :
                /\ WARRANTY_DATA["credit_df"] = r[1]
                /\ WARRANTY_DATA["debit_df"] = r[2]
                /\ WARRANTY_DATA["arbitration_df"] = r[3]
          /\ WARRANTY_DATA["current_month_df"]
                = process_current_month_warranty(program, pendingFile)[1]
          /\ ~CompensationGap =>
                WARRANTY_DATA["compensation_df"] = process_compensation_claim(program, compFile)[1]
          /\ ~PrGap => WARRANTY_DATA["pr_approval_df"] = process_pr_approval(program, prFile)[1]
    /\ (JsonReply /\ (CompensationGap \/ PrGap)) =>
          /\ CompensationGap => response.body.compensation = <<>>
          /\ PrGap => response.body.prApproval = <<>>
          /\ response.body.credit = Served("credit_df")
          /\ response.body.debit = Served("debit_df")
          /\ response.body.arbitration = Served("arbitration_df")
          /\ response.body.currentMonth = Served("current_month_df")
          /\ ~CompensationGap => response.body.compensation = Served("compensation_df")
          /\ ~PrGap => response.body.prApproval = Served("pr_approval_df")
    /\ (ExportReply /\ (\/ CompensationGap /\ response.type = "compensation"
                        \/ PrGap /\ response.type = "pr_approval")) =>
          /\ response.kind = "error"
          /\ response.detail \in NoDataDetails

\* the PR sheet has no Division column and the compensation sheet no 'No. of Days'
\* column: GET served no PR record, and compensation records without an average
C22_Witness ==
    /\ JsonReply
    /\ prFile = Lacking(Pr1, "Division")
    /\ compFile = Lacking(Compensation1, "No. of Days")
    /\ ledgerFile = Ledger1
    /\ WARRANTY_DATA["compensation_df"]
          = DropColumns(process_compensation_claim(program, Compensation1)[1],
                        {<<"Avg No. of Days">>})
    /\ response.body.prApproval = <<>>
    /\ Len(response.body.compensation) = 3
    /\ <<"Avg No. of Days">> \notin DOMAIN response.body.compensation[1]
    /\ response.body.compensation[1][<<"Total Claim Amount">>].n > 0

(***************************************************************************)
(* Properties of main.py's compensation summary                            *)
(***************************************************************************)
\* main.py's process_compensation_claim has returned a summary with rows
MainCompensationSummary ==
    /\ program = "main"
    /\ pc >= 3
    /\ WARRANTY_DATA["compensation_df"] # None
    /\ Len(WARRANTY_DATA["compensation_df"].rows) > 0

ArbitrationWorkbook ==
    /\ WorkbookReply
    /\ program = "main"
    /\ response.type = "arbitration"
    /\ response.division \in Range(dealer_mapping_values)
    /\ Len(response.details) = 2

\* the sum of the column c over the rows of a detail sheet
DetailSum(sheet, c) == SeqSum([i \in 1..Len(sheet.rows) |-> sheet.rows[i][c].n])

\* the sum of a division row's 'Claim Arbitration <month>' cells
ClaimArbitrationSum(row) ==
    SeqSum([i \in 1..Len(months) |-> row[MonthCol("Claim Arbitration", months[i])].n])

\* C24: in main.py's arbitration export for a mapped division the detail sheets agree
\* with the Summary sheet: the 'Pending Arbitration Amount' cells of the 'Pending Arb'
\* sheet add up to the division's 'Pending Claim Arbitration', and the 'Arbitration
\* Amount' cells of the detail sheet add up to the sum of the division's 'Claim
\* Arbitration <month>' cells.
C24_ArbitrationSheetsAgreeWithSummary ==
    ArbitrationWorkbook =>
        \A i \in 1..Len(response.summary.rows) :
            response.summary.rows[i][DivisionCol] = Str(response.division) =>
                /\ DetailSum(response.details[2], "Pending Arbitration Amount")
                      = response.summary.rows[i][<<"Pending Claim Arbitration">>].n
                /\ DetailSum(response.details[1], "Arbitration Amount")
                      = ClaimArbitrationSum(response.summary.rows[i])

(***************************************************************************)
(* Properties of the order of startup and serving                          *)
(***************************************************************************)
\* every entry of the cache holds what the process_* routine of its file returned
AggregationComplete ==
    /\ pc = 4
    /\ \E r \in process_warranty_data(program, ledgerFile) :
          /\ WARRANTY_DATA["credit_df"] = r[1]
          /\ WARRANTY_DATA["debit_df"] = r[2]
          /\ WARRANTY_DATA["arbitration_df"] = r[3]
          /\ WARRANTY_DATA["source_df"] = r[4]
    /\ <<WARRANTY_DATA["current_month_df"], WARRANTY_DATA["current_month_source_df"]>>
          = process_current_month_warranty(program, pendingFile)
    /\ <<WARRANTY_DATA["compensation_df"], WARRANTY_DATA["compensation_source_df"]>>
          = process_compensation_claim(program, compFile)
    /\ <<WARRANTY_DATA["pr_approval_df"], WARRANTY_DATA["pr_approval_source_df"]>>
          = process_pr_approval(program, prFile)

\* C25: the aggregation runs once, at startup, one routine after the other: a step
\* that answers a request is taken only when all four process_* routines have returned
\* and their results are in WARRANTY_DATA, and a step that writes WARRANTY_DATA is one
\* of the four startup statements, each of which runs once and in its turn.
C25_AggregationOnceBeforeServing ==
    /\ [](response # None => AggregationComplete)
    /\ [][/\ response' # response => (pc = 4 /\ WARRANTY_DATA' = WARRANTY_DATA)
          /\ WARRANTY_DATA' # WARRANTY_DATA => (pc < 4 /\ response = None)
          /\ pc' = pc \/ (pc' = pc + 1 /\ response = None /\ response' = None)]_vars

\* a request was answered from a cache that holds the tables of all four files
C25_Witness ==
    /\ JsonReply
    /\ AggregationComplete
    /\ \A k \in Keys : WARRANTY_DATA[k] # None
    /\ Len(response.body.credit) > 1
    /\ Len(response.body.prApproval) > 1

(***************************************************************************)
(* Properties of the ledger entries of the cache                           *)
(***************************************************************************)
LedgerKeys == {"credit_df", "debit_df", "arbitration_df", "source_df"}

\* C26: the result of process_warranty_data is all or nothing: in every reachable
\* state the credit, debit, arbitration and source entries of WARRANTY_DATA are all
\* None or all tables, so GET /api/warranty-data, which tests credit_df only, reads a
\* debit and an arbitration table whenever it goes past that test.
C26_LedgerEntriesAllOrNone ==
    /\ (\A k \in LedgerKeys : WARRANTY_DATA[k] = None)
       \/ (\A k \in LedgerKeys : WARRANTY_DATA[k] # None)
    /\ (JsonReply /\ WARRANTY_DATA["credit_df"] # None) =>
          /\ WARRANTY_DATA["debit_df"] # None
          /\ WARRANTY_DATA["arbitration_df"] # None
          /\ response.body.debit = Records(WARRANTY_DATA["debit_df"])
          /\ response.body.arbitration = Records(WARRANTY_DATA["arbitration_df"])

\* GET went past the credit_df test and served the rows of the debit and the
\* arbitration table of the ledger
C26_Witness ==
    /\ JsonReply
    /\ ledgerFile = Ledger1
    /\ \A k \in LedgerKeys : WARRANTY_DATA[k] # None
    /\ Len(response.body.debit) = 3
    /\ Len(response.body.arbitration) = 3
    /\ response.body.debit[3][DivisionCol] = GrandTotal

(***************************************************************************)
(* Properties of the ledger rows of months outside the tables              *)
(***************************************************************************)
\* the cleaned ledger rows, and those whose month key is one of Apr..Dec
LedgerDf == CleanLedger(ledgerFile.rows)
InsideRows == SelectSeq(LedgerDf, LAMBDA r : r.Month \in Range(months))
OutsideRows == SelectSeq(LedgerDf, LAMBDA r : r.Month \notin Range(months))

\* the three ledger tables of the cache, and the tables of the rows of Apr..Dec alone
CachedLedgerTables ==
    <<WARRANTY_DATA["credit_df"], WARRANTY_DATA["debit_df"], WARRANTY_DATA["arbitration_df"]>>
InsideLedgerTables ==
    <<credit_df(InsideRows), debit_df(InsideRows), arbitration_df(program, InsideRows)>>

\* every numeric cell of the row is 0
AllZeros(row) == \A c \in (DOMAIN row) \ {DivisionCol} : row[c] = Num(0)

\* C27: a ledger row whose month key is not one of Apr..Dec adds to no month column, to
\* no total, to no Claim Arbitration column and to no Pending Claim Arbitration: each
\* division row and the Grand Total row of the three tables are those of the rows of
\* Apr..Dec alone.  Its division still has a row in each table, of zeros if the
\* division has no row of Apr..Dec.
C27_OutsideMonthsCountForNothing ==
    (pc >= 1 /\ WARRANTY_DATA["credit_df"] # None) =>
        \A t \in 1..3 :
            LET table == CachedLedgerTables[t]
                inside == InsideLedgerTables[t]
            IN /\ Len(table.rows) = Len(dealers(LedgerDf)) + 1
               /\ LastRow(table) = LastRow(inside)
               /\ \A i \in 1..Len(dealers(LedgerDf)) :
                     /\ table.rows[i][DivisionCol] = DivisionCell(dealers(LedgerDf)[i])
                     /\ IF \E k \in 1..Len(InsideRows) :
                              InsideRows[k].Dealer_Code = dealers(LedgerDf)[i]
                        THEN \E j \in 1..Len(DivisionRows(inside)) :
                                inside.rows[j] = table.rows[i]
                        ELSE AllZeros(table.rows[i])

\* a ledger with a January row of one location and an April row of another: the first
\* has a row of zeros, the second its April amounts
C27_Witness ==
    /\ pc >= 1
    /\ WARRANTY_DATA["credit_df"] # None
    /\ Len(OutsideRows) = 1
    /\ Len(InsideRows) = 1
    /\ OutsideRows[1].Debit_Note_Amount > 0
    /\ OutsideRows[1].Credit_Note_Amount > 0
    /\ is_arbitration(program, OutsideRows[1].Claim_arbitration_ID)
    /\ Len(WARRANTY_DATA["debit_df"].rows) = 3
    /\ \E i \in 1..2 :
          /\ WARRANTY_DATA["debit_df"].rows[i][DivisionCol] = OutsideRows[1].Dealer_Code
          /\ AllZeros(WARRANTY_DATA["credit_df"].rows[i])
          /\ AllZeros(WARRANTY_DATA["debit_df"].rows[i])
          /\ AllZeros(WARRANTY_DATA["arbitration_df"].rows[i])
    /\ LastRow(WARRANTY_DATA["debit_df"])[<<"Total Debit">>].n = InsideRows[1].Debit_Note_Amount
    /\ InsideRows[1].Debit_Note_Amount > 0

(***************************************************************************)
(* Properties of POST /api/login                                           *)
(***************************************************************************)
\* the step is a call of api_login
LoginStep ==
    /\ response' # None
    /\ response'.kind = "login"
    /\ now' = now
    /\ response' # response \/ SESSIONS' # SESSIONS

\* the trimmed user id of the request is not empty and a key of USER_CREDENTIALS, and
\* the password of the request is the stored one
CredentialsMatch(request) ==
    /\ IsStr(request.user_id)
    /\ strip(request.user_id.s) # <<>>
    /\ strip(request.user_id.s) \in DOMAIN USER_CREDENTIALS
    /\ USER_CREDENTIALS[strip(request.user_id.s)] = request.password

\* C28: POST /api/login adds an entry to SESSIONS and sets the session cookie if and
\* only if the trimmed user id is not empty, is a key of USER_CREDENTIALS and the
\* password is the stored one.  A failed login is answered by 401 or 400, sets no
\* cookie and leaves SESSIONS as it was; a successful one adds one session under an id
\* that was not in use, bound to the trimmed user id, and leaves the others alone.
C28_SessionIffCredentialsMatch ==
    [][LoginStep =>
          IF CredentialsMatch(response'.request)
          THEN /\ response'.status = 200
               /\ response'.session_id \notin DOMAIN SESSIONS
               /\ DOMAIN SESSIONS' = DOMAIN SESSIONS \cup {response'.session_id}
               /\ SESSIONS'[response'.session_id].user_id = strip(response'.request.user_id.s)
               /\ SESSIONS'[response'.session_id].created_at = now
               /\ \A s \in DOMAIN SESSIONS : SESSIONS'[s] = SESSIONS[s]
          ELSE /\ response'.status \in {400, 401}
               /\ response'.session_id = 0
               /\ SESSIONS' = SESSIONS]_vars

\* a login under the user id with blanks around it was accepted: the session is bound
\* to the trimmed id
C28_Witness ==
    /\ response # None
    /\ response.kind = "login"
    /\ response.status = 200
    /\ response.request.user_id = Str(<<" ">> \o sUser \o <<" ">>)
    /\ response.session_id \in DOMAIN SESSIONS
    /\ SESSIONS[response.session_id].user_id = sUser

(***************************************************************************)
(* Properties of verify_session                                            *)
(***************************************************************************)
\* the step is a call of verify_session
VerifyStep ==
    /\ response' # None
    /\ response'.kind = "verify"
    /\ now' = now
    /\ response' # response \/ SESSIONS' # SESSIONS

\* the session of the id is in SESSIONS and its last activity is at most 8 hours old
Live(session_id) ==
    /\ session_id \in DOMAIN SESSIONS
    /\ now - SESSIONS[session_id].last_activity <= SessionHours

\* SESSIONS without the session of the id
Deleted(session_id) == [s \in DOMAIN SESSIONS \ {session_id} |-> SESSIONS[s]]

\* C29: verify_session returns the owning user id only for a session id that is in
\* SESSIONS with a last activity at most 8 hours old, and then sets last_activity to
\* now; a session it finds idle for more than 8 hours it deletes, returning None; an
\* id that is not in SESSIONS gets None and changes nothing.  Every id in SESSIONS was
\* handed out by create_session, and no step puts an id that was handed out before
\* (or a forged one) into SESSIONS: an expired or unknown id stays invalid.
C29_OnlyLiveSessionsVerify ==
    /\ [](DOMAIN SESSIONS \subseteq tokens)
    /\ [][/\ VerifyStep =>
               IF Live(response'.session_id)
               THEN /\ response'.user_id = Str(SESSIONS[response'.session_id].user_id)
                    /\ SESSIONS' = [SESSIONS EXCEPT ![response'.session_id].last_activity = now]
               ELSE /\ response'.user_id = None
                    /\ SESSIONS' = Deleted(response'.session_id)
          /\ tokens \subseteq tokens'
          /\ \A s \in DOMAIN SESSIONS' : s \in DOMAIN SESSIONS \/ s \notin tokens \cup {ForgedId}]_vars

\* a session was turned away as idle and deleted while a later session of the same
\* user is still in SESSIONS
C29_Witness ==
    /\ response # None
    /\ response.kind = "verify"
    /\ response.user_id = None
    /\ response.session_id \in tokens
    /\ response.session_id \notin DOMAIN SESSIONS
    /\ DOMAIN SESSIONS # {}

(***************************************************************************)
(* Properties of POST /api/change-password                                 *)
(***************************************************************************)
\* the step is a call of change_password
ChangeStep ==
    /\ response' # None
    /\ response'.kind = "change"
    /\ now' = now
    /\ \/ response' # response
       \/ SESSIONS' # SESSIONS
       \/ USER_CREDENTIALS' # USER_CREDENTIALS

\* the user of the session the request's cookie names
Owner(cookie) == SESSIONS[cookie.session_id].user_id

\* the request carries a valid session, its current password is the stored one of the
\* session's user, its new password is a text of at least 6 characters, and the
\* spreadsheet was written
ChangeAccepted(reply) ==
    /\ reply.cookie.present
    /\ Live(reply.cookie.session_id)
    /\ Owner(reply.cookie) \in DOMAIN USER_CREDENTIALS
    /\ reply.request.current_password = Str(USER_CREDENTIALS[Owner(reply.cookie)])
    /\ IsStr(reply.request.new_password)
    /\ Len(reply.request.new_password.s) >= MinPasswordLength
    /\ reply.written

\* C30: in main.py, POST /api/change-password sets USER_CREDENTIALS[user] to the new
\* password only when the request carries a valid session, the current password sent
\* is the stored one, the new password has at least 6 characters and the write to the
\* credentials spreadsheet succeeded; then only the entry of the session's owner
\* changes.  In every other outcome the reply is an error and USER_CREDENTIALS is as
\* before; nothing else changes USER_CREDENTIALS.
C30_PasswordChangesOnlyWhenChecked ==
    [][/\ ChangeStep =>
            IF ChangeAccepted(response')
            THEN /\ response'.status = 200
                 /\ USER_CREDENTIALS' =
                        [USER_CREDENTIALS EXCEPT ![Owner(response'.cookie)] =
                                                     response'.request.new_password.s]
            ELSE /\ response'.status \in {400, 401, 500}
                 /\ USER_CREDENTIALS' = USER_CREDENTIALS
       /\ USER_CREDENTIALS' # USER_CREDENTIALS => (ChangeStep /\ program = "main")]_vars

\* the password of user 101 was changed to the six-character one; that of user 102 is
\* the one loaded from the spreadsheet
C30_Witness ==
    /\ response # None
    /\ response.kind = "change"
    /\ response.status = 200
    /\ response.written
    /\ USER_CREDENTIALS[sUser] = sSecret
    /\ USER_CREDENTIALS[sUser2] = sPassword2
====
